---- MODULE Spec2Model ----
(***************************************************************************)
(* A model of the rounded-polygon / morph geometry pipeline                *)
(* (Knugel/rounded-polygon-ts).                                            *)
(*                                                                         *)
(* Numbers.  The program computes with IEEE doubles.  The model uses two   *)
(* fixed-point grids:                                                      *)
(*   - dimensionless reals (outline progress, curve parameter t, morph     *)
(*     progress, interpolation fractions) are integers in units of 1e-6,   *)
(*     so 1.0 is One, AngleEpsilon (1e-6) is 1, DistanceEpsilon (1e-4) is  *)
(*     100 and the 0.001 of linearMap is 1000;                             *)
(*   - coordinates and lengths are integers in units of 5e-5, so the       *)
(*     DistanceEpsilon of Cubic.zeroLength is 2 and two distinct points    *)
(*     can still be closer than it.                                        *)
(* Every product, quotient and weighted sum is rounded to the nearest grid  *)
(* point, once, as a double operation rounds to the nearest double.        *)
(***************************************************************************)
EXTENDS Integers, Sequences, FiniteSets, TLC

VARIABLES
    \* RoundedPolygon: the constructor's arguments and the derived cubics
    \* (<< >> until the constructor has run).
    features, center, cubics,
    \* Morph: the features of the two polygons given to the constructor, the
    \* Morph it built, what the last asCubics call returned and what the
    \* last forEachCubic call handed to its callback.
    startPolygon, endPolygon, morph, asCubicsRet, callbackCubics,
    \* MappingHelper: the helper object that addMapping is called on.
    mappingHelper,
    \* DoubleMapper: the mapper, the x last given to map, what map returned
    \* for it and what mapBack returned for that; the y given to mapBack on
    \* its own and what mapBack returned for it.
    mapper, xIn, mapped, mappedBack, yIn, yBack,
    \* RoundedPolygon.star: the arguments of the call (with the global
    \* `length` it reads) and what it returned.
    starArgs, starRet,
    \* RoundedPolygon.circle / fromVertices: the arguments of the call and
    \* what it returned.
    factoryArgs, factoryRet,
    \* MeasuredPolygon: the features of the polygon measured, the
    \* MeasuredPolygon at hand and the cutting points of the cutAndShift
    \* calls that led to it.
    measuredSource, measuredPolygon, cutsDone,
    \* Objects: the Cubic, MeasuredCubic and bounds-array objects that exist
    \* (heap), the features given to the RoundedPolygon constructor, the
    \* RoundedPolygon, the MeasuredPolygon and the Morph built from them
    \* (all holding references into heap), the caller's MutableCubic and
    \* bounds array, and the names of the calls made on the built objects.
    heap, objFeatures, objPolygon, objMeasured, objMorph, objScratch, objBounds, objCalls,
    \* RoundedPolygon.fromVertices with roundings: the arguments of the call
    \* and the cuts it settled on.
    cutArgs, cutRet,
    \* LengthMeasurer: the cubic measured, what measureCubic returned for it
    \* and, for each findCubicCutPoint call on it, the measure m given and
    \* the parameter t returned.
    lmCubic, lmSize, lmCuts,
    \* featureMapper: the two feature lists given, what doMapping ended with
    \* (its mapping makes the DoubleMapper returned) and, for one map call on
    \* that DoubleMapper, the x given and the value returned.
    fmFeatures1, fmFeatures2, fmHelper, fmX, fmMapped,
    \* Feature.reversed: the feature built and what each reversed() call in a
    \* row returned, the first on the feature, the next on the last result.
    revFeature, revResults

polyVars == << features, center, cubics >>

morphVars == << startPolygon, endPolygon, morph, asCubicsRet, callbackCubics >>

mapperVars == << mapper, xIn, mapped, mappedBack, yIn, yBack >>

starVars == << starArgs, starRet >>

factoryVars == << factoryArgs, factoryRet >>

\* The variables of the specifications further down.
measuredVars == << measuredSource, measuredPolygon, cutsDone >>

objVars == << heap, objFeatures, objPolygon, objMeasured, objMorph, objScratch, objBounds,
             objCalls >>

cutVars == << cutArgs, cutRet >>

lmVars == << lmCubic, lmSize, lmCuts >>

fmVars == << fmFeatures1, fmFeatures2, fmHelper, fmX, fmMapped >>

revVars == << revFeature, revResults >>

restVars == << factoryVars, measuredVars, objVars, cutVars, lmVars, fmVars, revVars >>

vars == << features, center, cubics,
           startPolygon, endPolygon, morph, asCubicsRet, callbackCubics,
           mappingHelper, mapper, xIn, mapped, mappedBack, yIn, yBack, starArgs, starRet,
           factoryArgs, factoryRet, measuredSource, measuredPolygon, cutsDone,
           heap, objFeatures, objPolygon, objMeasured, objMorph, objScratch, objBounds,
           objCalls, cutArgs, cutRet,
           lmCubic, lmSize, lmCuts,
           fmFeatures1, fmFeatures2, fmHelper, fmX, fmMapped,
           revFeature, revResults >>

\* ------------------------------------------------------------ units

\* 1.0 on the dimensionless grid (units of 1e-6).
One == 1000 * 1000

Half == One \div 2

\* utils.ts: export const DistanceEpsilon = 1e-4, on the dimensionless grid.
DistanceEpsilon == 100

\* utils.ts: export const DistanceEpsilon = 1e-4, on the coordinate grid.
DistanceEpsilonXY == 2

\* utils.ts: export const AngleEpsilon = 1e-6, on the dimensionless grid.
AngleEpsilon == 1

\* ------------------------------------------------------------ arithmetic

Abs(x) == IF x < 0 THEN -x ELSE x

Min(x, y) == IF x <= y THEN x ELSE y

Max(x, y) == IF x >= y THEN x ELSE y

Sign(x) == IF x > 0 THEN 1 ELSE IF x < 0 THEN -1 ELSE 0

\* a * b / c rounded to the nearest integer, for 0 <= a, b, c <= about One,
\* c > 0, without leaving 32-bit integers: b is split in base 1000 and the
\* quotient taken by long division.
MulDiv(a, b, c) ==
    LET bh == b \div 1000
        bl == b % 1000
        p1 == a * bh
        p0 == a * bl + (c \div 2)
    IN  (p1 \div c) * 1000 + (((p1 % c) * 1000 + p0) \div c)

\* x * y on the dimensionless grid (x in [0, One]; y dimensionless or a
\* coordinate).
Mul(x, y) == MulDiv(x, y, One)

\* x / y as a dimensionless number (x, y of the same grid, 0 <= x, 0 < y).
Div(x, y) == MulDiv(x, One, y)

\* F(v) for the value of v: v is computed once, before F uses it, as the
\* program computes a local before the statements that read it.
With(v, F(_)) == CHOOSE r \in { F(x) : x \in {v} } : TRUE

RECURSIVE SqrtSearch(_, _, _)
SqrtSearch(n, lo, hi) ==
    IF lo >= hi THEN lo
    ELSE With((lo + hi + 1) \div 2,
              LAMBDA mid : IF mid * mid <= n THEN SqrtSearch(n, mid, hi)
                           ELSE SqrtSearch(n, lo, mid - 1))

\* Math.sqrt, rounded down.
Sqrt(n) == SqrtSearch(n, 0, 46340)

\* utils.ts distance(x, y) = sqrt(x*x + y*y); an axis-parallel vector needs
\* no square.
distance(x, y) ==
    IF y = 0 THEN Abs(x)
    ELSE IF x = 0 THEN Abs(y)
    ELSE Sqrt(x * x + y * y)

\* utils.ts positiveModulo(value, 1) on the dimensionless grid.
positiveModulo(value) == ((value % One) + One) % One

\* JavaScript's remainder: the sign of the dividend (n > 0).
JsRem(x, n) == IF x >= 0 THEN x % n ELSE -((-x) % n)

\* utils.ts coerceIn(value, min, max), which swaps min and max when they
\* are in the wrong order.
coerceIn(value, min, max) ==
    LET actualMin == IF min <= max THEN min ELSE max
        actualMax == IF min <= max THEN max ELSE min
    IN  Max(actualMin, Min(actualMax, value))

RECURSIVE SumSeq(_)
SumSeq(s) == IF s = << >> THEN 0 ELSE Head(s) + SumSeq(Tail(s))

\* ws[1]*vs[1] + ... + ws[n]*vs[n] for dimensionless weights ws that add up
\* to about One and values vs >= 0, rounded once to the nearest integer.
WeightedSum(ws, vs) ==
    LET hi == SumSeq([i \in 1..Len(ws) |-> ws[i] * (vs[i] \div 1000)])
        lo == SumSeq([i \in 1..Len(ws) |-> ws[i] * (vs[i] % 1000)])
    IN  (hi + ((lo + 500000) \div 1000)) \div 1000

\* utils.ts interpolate(start, stop, fraction) = (1-fraction)*start +
\* fraction*stop; fraction on the dimensionless grid, start/stop >= 0.
interpolate(start, stop, fraction) ==
    WeightedSum(<< One - fraction, fraction >>, << start, stop >>)

\* 1/3 and 2/3 on the dimensionless grid.
Third == (One + 1) \div 3

TwoThirds == (2 * One + 1) \div 3

\* ------------------------------------------------------------ Cubic

\* A Cubic is its `points` array: <<a0x, a0y, c0x, c0y, c1x, c1y, a1x, a1y>>.
anchor0X(c) == c[1]
anchor0Y(c) == c[2]
control0X(c) == c[3]
control0Y(c) == c[4]
control1X(c) == c[5]
control1Y(c) == c[6]
anchor1X(c) == c[7]
anchor1Y(c) == c[8]

\* Cubic.straightLine
straightLine(x0, y0, x1, y1) ==
    << x0, y0,
       interpolate(x0, x1, Third), interpolate(y0, y1, Third),
       interpolate(x0, x1, TwoThirds), interpolate(y0, y1, TwoThirds),
       x1, y1 >>

\* Cubic.empty
emptyCubic(x0, y0) == << x0, y0, x0, y0, x0, y0, x0, y0 >>

\* Cubic.zeroLength
zeroLength(c) ==
    /\ Abs(anchor0X(c) - anchor1X(c)) < DistanceEpsilonXY
    /\ Abs(anchor0Y(c) - anchor1Y(c)) < DistanceEpsilonXY

\* The Bernstein weights of pointOnCurve at parameter t.
BernsteinWeights(t) ==
    LET u == One - t
    IN  << Mul(Mul(u, u), u),
           3 * Mul(t, Mul(u, u)),
           3 * Mul(Mul(t, t), u),
           Mul(Mul(t, t), t) >>

\* Cubic.pointOnCurve(t), as <<x, y>>.
pointOnCurve(c, t) ==
    LET w == BernsteinWeights(t)
    IN  << WeightedSum(w, << anchor0X(c), control0X(c), control1X(c), anchor1X(c) >>),
           WeightedSum(w, << anchor0Y(c), control0Y(c), control1Y(c), anchor1Y(c) >>) >>

\* Cubic.split(t): [a |-> first part, b |-> second part].
split(c, t) ==
    LET u  == One - t
        p  == pointOnCurve(c, t)
        w1 == << u, t >>
        w2 == << Mul(u, u), 2 * Mul(u, t), Mul(t, t) >>
    IN  [ a |-> << anchor0X(c), anchor0Y(c),
                   WeightedSum(w1, << anchor0X(c), control0X(c) >>),
                   WeightedSum(w1, << anchor0Y(c), control0Y(c) >>),
                   WeightedSum(w2, << anchor0X(c), control0X(c), control1X(c) >>),
                   WeightedSum(w2, << anchor0Y(c), control0Y(c), control1Y(c) >>),
                   p[1], p[2] >>,
          b |-> << p[1], p[2],
                   WeightedSum(w2, << control0X(c), control1X(c), anchor1X(c) >>),
                   WeightedSum(w2, << control0Y(c), control1Y(c), anchor1Y(c) >>),
                   WeightedSum(w1, << control1X(c), anchor1X(c) >>),
                   WeightedSum(w1, << control1Y(c), anchor1Y(c) >>),
                   anchor1X(c), anchor1Y(c) >> ]

\* Cubic.reverse
reverse(c) ==
    << anchor1X(c), anchor1Y(c), control1X(c), control1Y(c),
       control0X(c), control0Y(c), anchor0X(c), anchor0Y(c) >>

\* ------------------------------------------------------------ Feature

\* feature.ts: Edge and Corner.
Edge(cs) == [kind |-> "Edge", convex |-> FALSE, cubics |-> cs]

Corner(cs, cnvx) == [kind |-> "Corner", convex |-> cnvx, cubics |-> cs]

isCorner(f) == f.kind = "Corner"

\* Edge.reversed and Corner.reversed: this.cubics.map(c => c.reverse()),
\* and for a Corner !this.convex.
reversed(f) ==
    IF isCorner(f)
    THEN Corner([i \in 1..Len(f.cubics) |-> reverse(f.cubics[i])], ~f.convex)
    ELSE Edge([i \in 1..Len(f.cubics) |-> reverse(f.cubics[i])])

\* ------------------------------------------------------------ RoundedPolygon

\* null for a Cubic | null local.
Null == << >>

\* CubicListStep dropping a zero-length cubic without moving lastCubic's
\* anchor1 to the dropped cubic's anchor1.
CubicListStepUnpatched(st, cubic) ==
    IF ~zeroLength(cubic)
    THEN [ result     |-> IF st.lastCubic # Null
                          THEN Append(st.result, st.lastCubic)
                          ELSE st.result,
           lastCubic  |-> cubic,
           firstCubic |-> IF st.firstCubic = Null THEN cubic ELSE st.firstCubic ]
    ELSE st

\* One pass of buildCubicList's inner loop body over `cubic`; st holds the
\* locals result, firstCubic and lastCubic.
CubicListStep(st, cubic) ==
    IF ~zeroLength(cubic)
    THEN [ result     |-> IF st.lastCubic # Null
                          THEN Append(st.result, st.lastCubic)
                          ELSE st.result,
           lastCubic  |-> cubic,
           firstCubic |-> IF st.firstCubic = Null THEN cubic ELSE st.firstCubic ]
    ELSE IF st.lastCubic # Null
         THEN [st EXCEPT !.lastCubic =
                   [st.lastCubic EXCEPT ![7] = anchor1X(cubic), ![8] = anchor1Y(cubic)]]
         ELSE st

RECURSIVE CubicListLoop(_, _)
CubicListLoop(st, cs) ==
    IF cs = << >> THEN st
    ELSE With(CubicListStep(st, Head(cs)), LAMBDA next : CubicListLoop(next, Tail(cs)))

RECURSIVE FlattenCubics(_)
FlattenCubics(fs) ==
    IF fs = << >> THEN << >>
    ELSE Head(fs).cubics \o FlattenCubics(Tail(fs))

\* The cubics buildCubicList walks, in the order it walks them: when the
\* first feature has three cubics its middle one is split at 0.5, the second
\* half starts the walk and the first half ends it.
CubicListOrder(fs) ==
    IF Len(fs) > 0 /\ Len(fs[1].cubics) = 3
    THEN LET centerCubic == fs[1].cubics[2]
             halves == split(centerCubic, Half)
             firstFeatureSplitStart == << fs[1].cubics[1], halves.a >>
             firstFeatureSplitEnd == << halves.b, fs[1].cubics[3] >>
         IN  firstFeatureSplitEnd \o FlattenCubics(Tail(fs)) \o firstFeatureSplitStart
    ELSE FlattenCubics(fs)

\* ClosingCubic without the seam: lastCubic is pushed as it is.
ClosingCubicOpen(lastCubic, firstCubic) == lastCubic

\* The closing cubic: lastCubic's anchor0 and controls, firstCubic's anchor0.
ClosingCubic(lastCubic, firstCubic) ==
    << anchor0X(lastCubic), anchor0Y(lastCubic),
       control0X(lastCubic), control0Y(lastCubic),
       control1X(lastCubic), control1Y(lastCubic),
       anchor0X(firstCubic), anchor0Y(firstCubic) >>

\* RoundedPolygon.buildCubicList
buildCubicList(fs, ctr) ==
    With(CubicListLoop([result |-> << >>, lastCubic |-> Null, firstCubic |-> Null],
                       CubicListOrder(fs)),
         LAMBDA st :
            IF st.lastCubic # Null /\ st.firstCubic # Null
            THEN Append(st.result, ClosingCubic(st.lastCubic, st.firstCubic))
            ELSE Append(st.result, emptyCubic(ctr[1], ctr[2])))

\* ------------------------------------------------------------ LengthMeasurer

\* Number.POSITIVE_INFINITY as a threshold: larger than any length.
Infinity == 2000 * One

\* NaN (0/0) as a measure.
NaN == -1

\* LengthMeasurer.segments
segments == 3

\* LengthMeasurer.closestProgressTo's loop from step i on, as
\* [x |-> parameter t, y |-> length]; the loop runs while i < segments.
RECURSIVE ClosestProgressLoop(_, _, _, _, _, _)
ClosestProgressLoop(cubic, threshold, i, total, remainder, prev) ==
    IF ~(i < segments) THEN [x |-> One, y |-> total]
    ELSE LET progress == MulDiv(i, One, segments)
         IN  With(pointOnCurve(cubic, progress), LAMBDA point :
             With(distance(point[1] - prev[1], point[2] - prev[2]), LAMBDA segment :
               IF remainder # NaN /\ segment >= remainder
               THEN [ x |-> IF segment = 0 THEN NaN
                            ELSE progress - MulDiv(One - Div(remainder, segment), 1, segments),
                      y |-> threshold ]
               ELSE ClosestProgressLoop(cubic, threshold, i + 1, total + segment,
                                        IF remainder = NaN THEN NaN ELSE remainder - segment,
                                        point)))

\* LengthMeasurer.closestProgressTo
closestProgressTo(cubic, threshold) ==
    ClosestProgressLoop(cubic, threshold, 1, 0, threshold,
                        << anchor0X(cubic), anchor0Y(cubic) >>)

\* LengthMeasurer.measureCubic
measureCubic(c) == closestProgressTo(c, Infinity).y

\* LengthMeasurer.findCubicCutPoint
findCubicCutPoint(c, m) == closestProgressTo(c, m).x

\* ------------------------------------------------------------ MeasuredPolygon

\* new ProgressableFeature(progress, feature); ref stands for the object's
\* identity (its position in the list it was created in).
ProgressableFeature(progress, feature, ref) ==
    [progress |-> progress, feature |-> feature, ref |-> ref]

\* new MeasuredCubic(polygon, cubic, startOutlineProgress, endOutlineProgress)
MeasuredCubic(cubic, startOutlineProgress, endOutlineProgress) ==
    [ cubic |-> cubic,
      startOutlineProgress |-> startOutlineProgress,
      endOutlineProgress |-> endOutlineProgress,
      measuredSize |-> measureCubic(cubic) ]

\* MeasuredCubicsLoop with every kept cubic starting at its own outline
\* progress, not where the last kept one ended.
RECURSIVE MeasuredCubicsLoopOwnStart(_, _, _, _)
MeasuredCubicsLoopOwnStart(cs, outlineProgress, i, startOutlineProgress) ==
    IF i > Len(cs) THEN << >>
    ELSE IF (outlineProgress[i + 1] - outlineProgress[i]) > DistanceEpsilon
         THEN << MeasuredCubic(cs[i], outlineProgress[i], outlineProgress[i + 1]) >>
              \o MeasuredCubicsLoopOwnStart(cs, outlineProgress, i + 1, outlineProgress[i + 1])
         ELSE MeasuredCubicsLoopOwnStart(cs, outlineProgress, i + 1, startOutlineProgress)

\* The constructor's loop from cubic i on: a cubic is kept when its outline
\* progress range is larger than DistanceEpsilon, and starts where the last
\* kept one ended.
RECURSIVE MeasuredCubicsLoop(_, _, _, _)
MeasuredCubicsLoop(cs, outlineProgress, i, startOutlineProgress) ==
    IF i > Len(cs) THEN << >>
    ELSE IF (outlineProgress[i + 1] - outlineProgress[i]) > DistanceEpsilon
         THEN << MeasuredCubic(cs[i], startOutlineProgress, outlineProgress[i + 1]) >>
              \o MeasuredCubicsLoop(cs, outlineProgress, i + 1, outlineProgress[i + 1])
         ELSE MeasuredCubicsLoop(cs, outlineProgress, i + 1, startOutlineProgress)

\* A MeasuredPolygon whose construction raised.
ThrewPolygon == [threw |-> TRUE, features |-> << >>, cubics |-> << >>]

\* new MeasuredPolygon(measurer, features, cubics, outlineProgress); with no
\* cubic kept, measuredCubics[-1].updateProgressRange raises a TypeError.
MeasuredPolygon(fs, cs, outlineProgress) ==
    With(MeasuredCubicsLoop(cs, outlineProgress, 1, 0), LAMBDA measuredCubics :
        LET n == Len(measuredCubics)
        IN  IF n = 0 THEN ThrewPolygon
            ELSE [ threw    |-> FALSE,
                   features |-> fs,
                   cubics   |-> [measuredCubics EXCEPT ![n].endOutlineProgress = One] ])

\* MeasuredCubic.cutAtProgress: [a |-> first part, b |-> second part].
\* A cubic of empty progress range gives relativeProgress 0/0 = NaN.
cutAtProgress(mc, cutOutlineProgress) ==
    LET bounded == coerceIn(cutOutlineProgress, mc.startOutlineProgress,
                            mc.endOutlineProgress)
        outlineProgressSize == mc.endOutlineProgress - mc.startOutlineProgress
        progressFromStart == bounded - mc.startOutlineProgress
        m == IF outlineProgressSize = 0 THEN NaN
             ELSE Mul(Div(progressFromStart, outlineProgressSize), mc.measuredSize)
        t == findCubicCutPoint(mc.cubic, m)
    IN  With(split(mc.cubic, t), LAMBDA parts :
            [ a |-> MeasuredCubic(parts.a, mc.startOutlineProgress, bounded),
              b |-> MeasuredCubic(parts.b, bounded, mc.endOutlineProgress) ])

\* measurePolygon's first loop: the index (0-based, into the flattened
\* cubics) of each Corner's cubic number cubics.length / 2, which is a
\* cubic only when the corner has an even number of cubics.
RECURSIVE FeatureToCubic(_, _, _)
FeatureToCubic(fs, featureIndex, count) ==
    IF featureIndex > Len(fs) THEN << >>
    ELSE LET feature == fs[featureIndex]
             len == Len(feature.cubics)
         IN  ( IF isCorner(feature) /\ len % 2 = 0 /\ len > 0
               THEN << [a |-> feature, b |-> count + (len \div 2)] >>
               ELSE << >> )
             \o FeatureToCubic(fs, featureIndex + 1, count + len)

\* measurePolygon's running sum of measures, starting with 0.
RECURSIVE Measures(_, _)
Measures(cs, lastMeasure) ==
    IF cs = << >> THEN << lastMeasure >>
    ELSE << lastMeasure >> \o Measures(Tail(cs), lastMeasure + measureCubic(Head(cs)))

\* MeasuredPolygon.measurePolygon(new LengthMeasurer(), polygon); a total
\* measure of 0 makes every outline progress NaN, so no cubic is kept.
measurePolygon(fs) ==
    With(FlattenCubics(fs), LAMBDA cs :
    With(FeatureToCubic(fs, 1, 0), LAMBDA featureToCubic :
    With(Measures(cs, 0), LAMBDA measures :
      LET totalMeasure == measures[Len(measures)]
      IN  IF totalMeasure = 0 THEN ThrewPolygon
          ELSE
            With([i \in 1..Len(measures) |-> Div(measures[i], totalMeasure)],
                 LAMBDA outlineProgress :
            With([i \in 1..Len(featureToCubic) |->
                    LET ix == featureToCubic[i].b + 1
                    IN  ProgressableFeature(
                          positiveModulo((outlineProgress[ix] + outlineProgress[ix + 1]) \div 2),
                          featureToCubic[i].a, i)],
                 LAMBDA pfs : MeasuredPolygon(pfs, cs, outlineProgress))))))

\* The index (1-based) of the first cubic whose progress range holds
\* cuttingPoint; 0 when there is none.
RECURSIVE TargetIndex(_, _, _)
TargetIndex(mcs, cuttingPoint, i) ==
    IF i > Len(mcs) THEN 0
    ELSE IF cuttingPoint >= mcs[i].startOutlineProgress
            /\ cuttingPoint <= mcs[i].endOutlineProgress
         THEN i
         ELSE TargetIndex(mcs, cuttingPoint, i + 1)

\* cutAndShift handing on the features with the progress they had.
cutAndShiftFeaturesKept(mp, cuttingPoint) ==
    IF cuttingPoint < DistanceEpsilon THEN mp
    ELSE IF TargetIndex(mp.cubics, cuttingPoint, 1) = 0 THEN ThrewPolygon
    ELSE
      With(TargetIndex(mp.cubics, cuttingPoint, 1), LAMBDA targetIndex :
      With(cutAtProgress(mp.cubics[targetIndex], cuttingPoint), LAMBDA cut :
         LET n == Len(mp.cubics)
             retCubics ==
                 << cut.b.cubic >>
                 \o [i \in 1..(n - 1) |-> mp.cubics[((i + targetIndex - 1) % n) + 1].cubic]
                 \o << cut.a.cubic >>
             retOutlineProgress ==
                 << 0 >>
                 \o [i \in 1..n |->
                       positiveModulo(mp.cubics[((targetIndex - 1 + i - 1) % n) + 1]
                                        .endOutlineProgress - cuttingPoint)]
                 \o << One >>
         IN  With(retCubics, LAMBDA cs :
             With(retOutlineProgress, LAMBDA outlineProgress :
                MeasuredPolygon(mp.features, cs, outlineProgress)))))

\* MeasuredPolygon.cutAndShift
cutAndShift(mp, cuttingPoint) ==
    IF cuttingPoint < DistanceEpsilon THEN mp
    ELSE IF TargetIndex(mp.cubics, cuttingPoint, 1) = 0 THEN ThrewPolygon
    ELSE
      With(TargetIndex(mp.cubics, cuttingPoint, 1), LAMBDA targetIndex :
      With(cutAtProgress(mp.cubics[targetIndex], cuttingPoint), LAMBDA cut :
         LET n == Len(mp.cubics)
             retCubics ==
                 << cut.b.cubic >>
                 \o [i \in 1..(n - 1) |-> mp.cubics[((i + targetIndex - 1) % n) + 1].cubic]
                 \o << cut.a.cubic >>
             retOutlineProgress ==
                 << 0 >>
                 \o [i \in 1..n |->
                       positiveModulo(mp.cubics[((targetIndex - 1 + i - 1) % n) + 1]
                                        .endOutlineProgress - cuttingPoint)]
                 \o << One >>
             newFeatures ==
                 [i \in 1..Len(mp.features) |->
                    ProgressableFeature(positiveModulo(mp.features[i].progress - cuttingPoint),
                                        mp.features[i].feature, mp.features[i].ref)]
         IN  With(retCubics, LAMBDA cs :
             With(retOutlineProgress, LAMBDA outlineProgress :
                MeasuredPolygon(newFeatures, cs, outlineProgress)))))

\* ------------------------------------------------------------ DoubleMapper

\* float-mapping.ts progressInRange
progressInRange(progress, progressFrom, progressTo) ==
    IF progressTo >= progressFrom
    THEN progress >= progressFrom /\ progress <= progressTo
    ELSE progress >= progressFrom \/ progress <= progressTo

\* SegmentStartIndex that settles for the first segment when none holds x.
SegmentStartIndexOrFirst(xValues, x, i) ==
    IF \E k \in 1..Len(xValues) :
          progressInRange(x, xValues[k], xValues[(k % Len(xValues)) + 1])
    THEN CHOOSE k \in 1..Len(xValues) :
          /\ progressInRange(x, xValues[k], xValues[(k % Len(xValues)) + 1])
          /\ \A j \in 1..(k - 1) :
                ~progressInRange(x, xValues[j], xValues[(j % Len(xValues)) + 1])
    ELSE IF Len(xValues) > 0 THEN 1 ELSE 0

\* linearMap's search: the first i (1-based) whose cyclic segment
\* [xValues[i], xValues[i+1]] holds x; 0 when there is none.
RECURSIVE SegmentStartIndex(_, _, _)
SegmentStartIndex(xValues, x, i) ==
    IF i > Len(xValues) THEN 0
    ELSE IF progressInRange(x, xValues[i], xValues[(i % Len(xValues)) + 1])
         THEN i
         ELSE SegmentStartIndex(xValues, x, i + 1)

\* linearMap's result when it raises "No valid segment found".
NoSegment == -1

\* linearMap's threshold 0.001 under which a segment maps to its middle.
SegmentSizeMin == 1000

\* linearMap taking every segment for a short one: always its middle.
linearMapMiddle(xValues, yValues, x) ==
    LET segmentStartIndex == SegmentStartIndex(xValues, x, 1)
        segmentEndIndex == (segmentStartIndex % Len(xValues)) + 1
        segmentSizeY == positiveModulo(yValues[segmentEndIndex] - yValues[segmentStartIndex])
    IN  IF segmentStartIndex = 0 THEN NoSegment
        ELSE positiveModulo(yValues[segmentStartIndex] + Mul(Half, segmentSizeY))

\* float-mapping.ts linearMap
linearMap(xValues, yValues, x) ==
    LET segmentStartIndex == SegmentStartIndex(xValues, x, 1)
        segmentEndIndex == (segmentStartIndex % Len(xValues)) + 1
        segmentSizeX == positiveModulo(xValues[segmentEndIndex] - xValues[segmentStartIndex])
        segmentSizeY == positiveModulo(yValues[segmentEndIndex] - yValues[segmentStartIndex])
        positionInSegment ==
            IF segmentSizeX < SegmentSizeMin THEN Half
            ELSE Div(positiveModulo(x - xValues[segmentStartIndex]), segmentSizeX)
    IN  IF segmentStartIndex = 0 THEN NoSegment
        ELSE positiveModulo(yValues[segmentStartIndex] + Mul(positionInSegment, segmentSizeY))

\* new DoubleMapper(...mappings)
DoubleMapper(mappings) ==
    [ sourceValues |-> [i \in 1..Len(mappings) |-> mappings[i].a],
      targetValues |-> [i \in 1..Len(mappings) |-> mappings[i].b] ]

\* DoubleMapper.map
map(dm, x) == linearMap(dm.sourceValues, dm.targetValues, x)

\* DoubleMapper.mapBack
mapBack(dm, x) == linearMap(dm.targetValues, dm.sourceValues, x)

\* ------------------------------------------------------------ feature mapping

\* feature-mapping.ts IdentityMapping
IdentityMapping == << [a |-> 0, b |-> 0], [a |-> Half, b |-> Half] >>

\* Number.MAX_VALUE as a squared distance.
MaxValue == -1

\* featureRepresentativePoint
featureRepresentativePoint(feature) ==
    LET first == feature.cubics[1]
        last == feature.cubics[Len(feature.cubics)]
    IN  << (anchor0X(first) + anchor1X(last)) \div 2,
           (anchor0Y(first) + anchor1Y(last)) \div 2 >>

\* featureDistSquared without the test of the convex flags.
featureDistSquaredAnyConvexity(f1, f2) ==
    LET p1 == featureRepresentativePoint(f1)
        p2 == featureRepresentativePoint(f2)
    IN  (p1[1] - p2[1]) * (p1[1] - p2[1]) + (p1[2] - p2[2]) * (p1[2] - p2[2])

\* featureDistSquared
featureDistSquared(f1, f2) ==
    IF isCorner(f1) /\ isCorner(f2) /\ f1.convex # f2.convex
    THEN MaxValue
    ELSE LET p1 == featureRepresentativePoint(f1)
             p2 == featureRepresentativePoint(f2)
         IN  (p1[1] - p2[1]) * (p1[1] - p2[1]) + (p1[2] - p2[2]) * (p1[2] - p2[2])

\* progressDistance
progressDistance(p1, p2) ==
    LET it == Abs(p1 - p2) IN Min(it, One - it)

\* new DistanceVertex(distance, f1, f2)
DistanceVertex(d, f1, f2) == [distance |-> d, f1 |-> f1, f2 |-> f2]

\* doMapping's nested loops from (i, j) on: every pair whose distance is not
\* Number.MAX_VALUE, f1 outer and f2 inner.
RECURSIVE DistanceVertexList(_, _, _, _)
DistanceVertexList(features1, features2, i, j) ==
    IF i > Len(features1) THEN << >>
    ELSE IF j > Len(features2) THEN DistanceVertexList(features1, features2, i + 1, 1)
    ELSE LET d == featureDistSquared(features1[i].feature, features2[j].feature)
         IN  ( IF d # MaxValue
               THEN << DistanceVertex(d, features1[i], features2[j]) >>
               ELSE << >> )
             \o DistanceVertexList(features1, features2, i, j + 1)

\* v put into the sorted list vs after every element not farther than it.
RECURSIVE InsertByDistance(_, _)
InsertByDistance(vs, v) ==
    IF vs = << >> THEN << v >>
    ELSE IF Head(vs).distance <= v.distance
         THEN << Head(vs) >> \o InsertByDistance(Tail(vs), v)
         ELSE << v >> \o vs

\* The first n elements of vs, sorted by distance, equal distances in the
\* order of vs.
RECURSIVE SortPrefix(_, _)
SortPrefix(vs, n) ==
    IF n = 0 THEN << >>
    ELSE With(SortPrefix(vs, n - 1), LAMBDA sorted : InsertByDistance(sorted, vs[n]))

\* No sort: the list in the order the nested loops built it.
Unsorted(vs) == vs

\* Array.prototype.sort((a, b) => a.distance - b.distance): a stable sort.
SortByDistance(vs) == SortPrefix(vs, Len(vs))

\* Array.prototype.findIndex(x => x.a === progress), 0-based; -1 for none.
RECURSIVE FindIndex(_, _, _)
FindIndex(mappings, progress, i) ==
    IF i > Len(mappings) THEN -1
    ELSE IF mappings[i].a = progress THEN i - 1
         ELSE FindIndex(mappings, progress, i + 1)

\* A new MappingHelper; pairs lists the accepted (f1, f2) next to `mapping`
\* (kept for the properties only), threw tells that addMapping raised.
NewHelper ==
    [ mapping |-> << >>, usedF1 |-> {}, usedF2 |-> {}, pairs |-> << >>,
      candidates |-> << >>, threw |-> FALSE ]

\* Array.prototype.splice(insertionIndex, 0, item) for insertionIndex in
\* -length..0: a negative index counts from the end.
Splice(mappings, insertionIndex, item) ==
    LET at == IF insertionIndex < 0
              THEN Max(Len(mappings) + insertionIndex, 0)
              ELSE Min(insertionIndex, Len(mappings))
    IN  SubSeq(mappings, 1, at) \o << item >> \o SubSeq(mappings, at + 1, Len(mappings))

\* MappingHelper.addMapping; h is the helper before the call.  Reading
\* this.mapping[k] with k < 0 gives undefined, and destructuring it raises.
addMapping(h, f1, f2) ==
    IF h.threw \/ f1.ref \in h.usedF1 \/ f2.ref \in h.usedF2 THEN h
    ELSE
      LET index == FindIndex(h.mapping, f1.progress, 1)
          insertionIndex == -index - 1
          n == Len(h.mapping)
          beforeIndex == JsRem(insertionIndex + n - 1, n)
          afterIndex == JsRem(insertionIndex, n)
          before == h.mapping[beforeIndex + 1]
          after == h.mapping[afterIndex + 1]
          added == [h EXCEPT
                     !.mapping = Splice(h.mapping, insertionIndex,
                                        [a |-> f1.progress, b |-> f2.progress]),
                     !.usedF1  = h.usedF1 \cup {f1.ref},
                     !.usedF2  = h.usedF2 \cup {f2.ref},
                     !.pairs   = Splice(h.pairs, insertionIndex, << f1, f2 >>)]
      IN  IF n >= 1
          THEN IF beforeIndex < 0 \/ afterIndex < 0
               THEN [h EXCEPT !.threw = TRUE]
               ELSE IF \/ progressDistance(f1.progress, before.a) < DistanceEpsilon
                       \/ progressDistance(f1.progress, after.a) < DistanceEpsilon
                       \/ progressDistance(f2.progress, before.b) < DistanceEpsilon
                       \/ progressDistance(f2.progress, after.b) < DistanceEpsilon
                    THEN h
                    ELSE IF n > 1 /\ ~progressInRange(f2.progress, before.b, after.b)
                         THEN h
                         ELSE added
          ELSE added

\* distanceVertexList.forEach(({f1, f2}) => helper.addMapping(f1, f2))
RECURSIVE AddMappings(_, _)
AddMappings(h, vs) ==
    IF vs = << >> THEN h
    ELSE With(addMapping(h, Head(vs).f1, Head(vs).f2),
              LAMBDA next : AddMappings(next, Tail(vs)))

\* doMapping without its two special cases: every list of candidates goes
\* through the helper.
doMappingGreedyOnly(features1, features2) ==
    With(DistanceVertexList(features1, features2, 1, 1), LAMBDA unsorted :
    With(SortByDistance(unsorted), LAMBDA distanceVertexList :
    With([NewHelper EXCEPT !.candidates = distanceVertexList], LAMBDA helper :
        AddMappings(helper, distanceVertexList))))

\* doMapping, as the helper it ends with: the special cases of no pair and
\* of one pair build their two anchors without a helper.  candidates is the
\* sorted distanceVertexList (kept for the properties only).
doMapping(features1, features2) ==
    With(DistanceVertexList(features1, features2, 1, 1), LAMBDA unsorted :
    With(SortByDistance(unsorted), LAMBDA distanceVertexList :
    With([NewHelper EXCEPT !.candidates = distanceVertexList], LAMBDA helper :
        IF Len(distanceVertexList) = 0
        THEN [helper EXCEPT !.mapping = IdentityMapping]
        ELSE IF Len(distanceVertexList) = 1
        THEN LET f1 == distanceVertexList[1].f1
                 f2 == distanceVertexList[1].f2
             IN  [helper EXCEPT
                    !.mapping = << [a |-> f1.progress, b |-> f2.progress],
                                   [a |-> (f1.progress + Half) % One,
                                    b |-> (f2.progress + Half) % One] >>,
                    !.pairs = << << f1, f2 >> >>]
        ELSE AddMappings(helper, distanceVertexList))))

\* The features featureMapper keeps: the corners.
FilterCorners(pfs) == SelectSeq(pfs, LAMBDA pf : isCorner(pf.feature))

\* featureMapper, as the helper doMapping ends with; the DoubleMapper is
\* DoubleMapper(helper.mapping).
featureMapper(features1, features2) ==
    With(FilterCorners(features1), LAMBDA filteredFeatures1 :
    With(FilterCorners(features2), LAMBDA filteredFeatures2 :
        doMapping(filteredFeatures1, filteredFeatures2)))

\* ------------------------------------------------------------ Morph

\* undefined as a MeasuredCubic: bs.cubics[i] past the end of the array.
Undefined == [ cubic |-> << >>, startOutlineProgress |-> 0,
               endOutlineProgress |-> 0, measuredSize |-> 0 ]

\* bs.cubics[i++] with i 0-based.
CubicAt(mcs, i) == IF i < Len(mcs) THEN mcs[i + 1] ELSE Undefined

\* MatchStep cutting whenever the other side ends earlier, by however
\* little: no AngleEpsilon in the two tests.
MatchStepExact(bs1, bs2, dm, polygon2CutPoint, st) ==
      LET b1a == IF st.i1 = Len(bs1.cubics) THEN One ELSE st.b1.endOutlineProgress
      IN
      With(IF st.i2 = Len(bs2.cubics) THEN One
           ELSE mapBack(dm, positiveModulo(st.b2.endOutlineProgress + polygon2CutPoint)),
           LAMBDA b2a :
        LET minb == Min(b1a, b2a)
            cut1 == b1a > minb
            cut2 == b2a > minb
        IN
        With(IF cut2 THEN map(dm, minb) ELSE 0, LAMBDA fwd :
          IF b2a = NoSegment \/ fwd = NoSegment
          THEN [st EXCEPT !.threw = TRUE]
          ELSE
            With(IF cut1 THEN cutAtProgress(st.b1, minb)
                 ELSE [a |-> st.b1, b |-> CubicAt(bs1.cubics, st.i1)],
                 LAMBDA parts1 :
            With(IF cut2
                 THEN cutAtProgress(st.b2, positiveModulo(fwd - polygon2CutPoint))
                 ELSE [a |-> st.b2, b |-> CubicAt(bs2.cubics, st.i2)],
                 LAMBDA parts2 :
                 [ i1    |-> IF cut1 THEN st.i1 ELSE st.i1 + 1,
                   i2    |-> IF cut2 THEN st.i2 ELSE st.i2 + 1,
                   b1    |-> parts1.b,
                   b2    |-> parts2.b,
                   from1 |-> IF cut1 THEN st.from1 ELSE st.i1 + 1,
                   from2 |-> IF cut2 THEN st.from2 ELSE st.i2 + 1,
                   ret   |-> Append(st.ret, [a |-> parts1.a.cubic, b |-> parts2.a.cubic,
                                             ia |-> st.from1, ib |-> st.from2]),
                   threw |-> FALSE ]))))

\* One pass of the body of Morph.match's while loop.  st holds the locals
\* i1, i2, b1, b2 and ret; from1/from2 tell which cubic of bs1/bs2 (1-based)
\* b1/b2 is or is a piece of, and each pair of ret records them as ia/ib
\* (kept for the properties only).  threw tells that mapBack or map raised.
MatchStep(bs1, bs2, dm, polygon2CutPoint, st) ==
      LET b1a == IF st.i1 = Len(bs1.cubics) THEN One ELSE st.b1.endOutlineProgress
      IN
      With(IF st.i2 = Len(bs2.cubics) THEN One
           ELSE mapBack(dm, positiveModulo(st.b2.endOutlineProgress + polygon2CutPoint)),
           LAMBDA b2a :
        LET minb == Min(b1a, b2a)
            cut1 == b1a > minb + AngleEpsilon
            cut2 == b2a > minb + AngleEpsilon
        IN
        With(IF cut2 THEN map(dm, minb) ELSE 0, LAMBDA fwd :
          IF b2a = NoSegment \/ fwd = NoSegment
          THEN [st EXCEPT !.threw = TRUE]
          ELSE
            With(IF cut1 THEN cutAtProgress(st.b1, minb)
                 ELSE [a |-> st.b1, b |-> CubicAt(bs1.cubics, st.i1)],
                 LAMBDA parts1 :
            With(IF cut2
                 THEN cutAtProgress(st.b2, positiveModulo(fwd - polygon2CutPoint))
                 ELSE [a |-> st.b2, b |-> CubicAt(bs2.cubics, st.i2)],
                 LAMBDA parts2 :
                 [ i1    |-> IF cut1 THEN st.i1 ELSE st.i1 + 1,
                   i2    |-> IF cut2 THEN st.i2 ELSE st.i2 + 1,
                   b1    |-> parts1.b,
                   b2    |-> parts2.b,
                   from1 |-> IF cut1 THEN st.from1 ELSE st.i1 + 1,
                   from2 |-> IF cut2 THEN st.from2 ELSE st.i2 + 1,
                   ret   |-> Append(st.ret, [a |-> parts1.a.cubic, b |-> parts2.a.cubic,
                                             ia |-> st.from1, ib |-> st.from2]),
                   threw |-> FALSE ]))))

\* The while loop with every pass run twice over: after a pass, one more
\* that pushes the same pair again and advances neither i1 nor i2.
RECURSIVE MatchLoopStalling(_, _, _, _, _)
MatchLoopStalling(bs1, bs2, dm, polygon2CutPoint, st) ==
    IF st.threw \/ st.b1 = Undefined \/ st.b2 = Undefined THEN st
    ELSE With(MatchStep(bs1, bs2, dm, polygon2CutPoint, st), LAMBDA next :
              MatchLoopStalling(bs1, bs2, dm, polygon2CutPoint,
                                IF next.threw THEN next
                                ELSE [next EXCEPT !.ret = Append(@, @[Len(@)])]))

\* Morph.match's while loop: while (b1 != null && b2 != null).
RECURSIVE MatchLoop(_, _, _, _, _)
MatchLoop(bs1, bs2, dm, polygon2CutPoint, st) ==
    IF st.threw \/ st.b1 = Undefined \/ st.b2 = Undefined THEN st
    ELSE With(MatchStep(bs1, bs2, dm, polygon2CutPoint, st),
              LAMBDA next : MatchLoop(bs1, bs2, dm, polygon2CutPoint, next))

\* A Morph whose constructor raised.
ThrewMatch ==
    [ threw |-> TRUE, morphMatch |-> << >>, bs1 |-> ThrewPolygon, bs2 |-> ThrewPolygon,
      mapping |-> << >>, pairs |-> << >>, candidates |-> << >>,
      b1 |-> Undefined, b2 |-> Undefined ]

\* Morph.match(p1, p2) on the two polygons' features: the morphMatch list,
\* with the two measured outlines, the mapper's anchors and what the loop
\* left in b1 and b2 (kept for the properties only).  When match raises
\* after featureMapper returned, what featureMapper built is kept too.
match(fs1, fs2) ==
    With(measurePolygon(fs1), LAMBDA measuredPolygon1 :
    With(measurePolygon(fs2), LAMBDA measuredPolygon2 :
      IF measuredPolygon1.threw \/ measuredPolygon2.threw THEN ThrewMatch
      ELSE
        With(featureMapper(measuredPolygon1.features, measuredPolygon2.features),
             LAMBDA helper :
          IF helper.threw THEN ThrewMatch
          ELSE
            With([ThrewMatch EXCEPT !.mapping = helper.mapping,
                                    !.pairs = helper.pairs,
                                    !.candidates = helper.candidates],
                 LAMBDA threwMapped :
            With(DoubleMapper(helper.mapping), LAMBDA doubleMapper :
            With(map(doubleMapper, 0), LAMBDA polygon2CutPoint :
              IF polygon2CutPoint = NoSegment THEN threwMapped
              ELSE
                With(cutAndShift(measuredPolygon2, polygon2CutPoint), LAMBDA bs2 :
                  IF bs2.threw THEN threwMapped
                  ELSE
                    With(MatchLoop(measuredPolygon1, bs2, doubleMapper, polygon2CutPoint,
                                   [ i1 |-> 1, i2 |-> 1,
                                     b1 |-> CubicAt(measuredPolygon1.cubics, 0),
                                     b2 |-> CubicAt(bs2.cubics, 0),
                                     from1 |-> 1, from2 |-> 1,
                                     ret |-> << >>, threw |-> FALSE ]),
                         LAMBDA st :
                      IF st.threw THEN threwMapped
                      ELSE [ threw |-> FALSE, morphMatch |-> st.ret,
                             bs1 |-> measuredPolygon1, bs2 |-> bs2,
                             mapping |-> helper.mapping, pairs |-> helper.pairs,
                             candidates |-> helper.candidates,
                             b1 |-> st.b1, b2 |-> st.b2 ]))))))))

\* The cubic asCubics and MutableCubic.interpolate compute for one pair.
InterpolatedCubic(pair, progress) ==
    [it \in 1..8 |-> interpolate(pair.a[it], pair.b[it], progress)]

\* One pass of the body of Morph.asCubics' loop, for pair i; st holds ret,
\* firstCubic and lastCubic.
AsCubicsStep(mm, progress, i, st) ==
    With(InterpolatedCubic(mm[i], progress), LAMBDA cubic :
         [ firstCubic |-> IF st.firstCubic = Null THEN cubic ELSE st.firstCubic,
           ret        |-> IF st.lastCubic # Null
                          THEN Append(st.ret, st.lastCubic)
                          ELSE st.ret,
           lastCubic  |-> cubic ])

\* Morph.asCubics' loop from pair i on.
RECURSIVE AsCubicsLoop(_, _, _, _)
AsCubicsLoop(mm, progress, i, st) ==
    IF i > Len(mm) THEN st
    ELSE With(AsCubicsStep(mm, progress, i, st),
              LAMBDA next : AsCubicsLoop(mm, progress, i + 1, next))

\* SeamCubic ending at firstCubic's anchor1 instead of its anchor0.
SeamCubicToFirstEnd(lastCubic, firstCubic) ==
    << anchor0X(lastCubic), anchor0Y(lastCubic),
       control0X(lastCubic), control0Y(lastCubic),
       control1X(lastCubic), control1Y(lastCubic),
       anchor1X(firstCubic), anchor1Y(firstCubic) >>

\* The cubic asCubics pushes after its loop: lastCubic's anchor0 and
\* controls, firstCubic's anchor0.
SeamCubic(lastCubic, firstCubic) ==
    << anchor0X(lastCubic), anchor0Y(lastCubic),
       control0X(lastCubic), control0Y(lastCubic),
       control1X(lastCubic), control1Y(lastCubic),
       anchor0X(firstCubic), anchor0Y(firstCubic) >>

\* asCubics pushing every interpolated cubic and then the seam cubic.
asCubicsAppending(mm, progress) ==
    With([i \in 1..Len(mm) |-> InterpolatedCubic(mm[i], progress)], LAMBDA all :
        IF Len(mm) = 0 THEN << >>
        ELSE Append(all, SeamCubic(all[Len(all)], all[1])))

\* Morph.asCubics(progress)
asCubics(mm, progress) ==
    With(AsCubicsLoop(mm, progress, 1,
                      [ret |-> << >>, firstCubic |-> Null, lastCubic |-> Null]),
         LAMBDA st :
            IF st.lastCubic # Null /\ st.firstCubic # Null
            THEN Append(st.ret, SeamCubic(st.lastCubic, st.firstCubic))
            ELSE st.ret)

\* Morph.forEachCubic(progress, mutableCubic, callback): the values the
\* scratch cubic holds at the successive calls of callback.
forEachCubic(mm, progress) ==
    [i \in 1..Len(mm) |-> InterpolatedCubic(mm[i], progress)]

\* ------------------------------------------------------------ RoundedPolygon.star

\* new CornerRounding(radius, smoothing)
CornerRounding(radius, smoothing) == [radius |-> radius, smoothing |-> smoothing]

\* CornerRounding.Unrounded
Unrounded == CornerRounding(0, 0)

\* null as a CornerRounding, and null as a CornerRounding[].
NullRounding == [radius |-> -1, smoothing |-> -1]

NullList == << NullRounding >>

\* The global `length` when no such global exists: reading it raises a
\* ReferenceError.
NoGlobal == -1

\* Array.from({ length }).flatMap(() => [rounding, innerRounding])
FlatMapRoundings(length, rounding, innerRounding) ==
    [i \in 1..(2 * length) |-> IF i % 2 = 1 THEN rounding ELSE innerRounding]

\* starVerticesFromNumVerts: vertex 2i (0-based) at radius and angle
\* 2i * PI / numVerticesPerRadius, vertex 2i+1 at innerRadius and angle
\* (2i+1) * PI / numVerticesPerRadius; a vertex is kept as [r, k] for the
\* point at distance r and angle k * PI / numVerticesPerRadius of the center.
starVerticesFromNumVerts(numVerticesPerRadius, radius, innerRadius) ==
    [j \in 1..(2 * numVerticesPerRadius) |->
        [r |-> IF j % 2 = 1 THEN radius ELSE innerRadius, k |-> j - 1]]

\* fromVertices' choice of a corner's rounding, i 0-based:
\* perVertexRounding?.[i] ?? rounding.
VtxRounding(perVertexRounding, rounding, i) ==
    IF perVertexRounding = NullList \/ i >= Len(perVertexRounding) THEN rounding
    ELSE perVertexRounding[i + 1]

\* What a call of star that raised returns.
ThrewStar == [threw |-> TRUE, pvRounding |-> NullList, vertices |-> << >>,
              vtxRounding |-> << >>]

\* star has not been called.
NotCalled == [threw |-> FALSE, pvRounding |-> NullList, vertices |-> << >>,
              vtxRounding |-> << >>]

\* RoundedPolygon.star; a holds the arguments and length, the value of the
\* global `length` that star's Array.from({ length }) reads.  The result
\* holds the local pvRounding, the vertices handed to fromVertices and the
\* rounding fromVertices gives each of them.
star(a) ==
    LET synthesize == a.perVertexRounding = NullList /\ a.innerRounding # NullRounding
        pvRounding == IF synthesize
                      THEN FlatMapRoundings(a.length, a.rounding, a.innerRounding)
                      ELSE a.perVertexRounding
        vertices == starVerticesFromNumVerts(a.numVerticesPerRadius, a.radius, a.innerRadius)
    IN  IF synthesize /\ a.length = NoGlobal THEN ThrewStar
        ELSE [ threw       |-> FALSE,
               pvRounding  |-> pvRounding,
               vertices    |-> vertices,
               vtxRounding |-> [j \in 1..Len(vertices) |->
                                  VtxRounding(a.perVertexRounding, a.rounding, j - 1)] ]

\* ------------------------------------------------------------ RoundedPolygon factories

\* Number.MAX_SAFE_INTEGER and Number.MIN_SAFE_INTEGER (2^53 - 1 and its
\* negative), kept as the largest number that is available here.
MAX_SAFE_INTEGER == 2147483647

MIN_SAFE_INTEGER == -MAX_SAFE_INTEGER

\* A default parameter value: the argument when one was supplied.
DefaultTo(supplied, value, default) == IF supplied THEN value ELSE default

\* new RoundedPolygon(features, center)
RoundedPolygon(fs, ctr) ==
    [features |-> fs, center |-> ctr, cubics |-> buildCubicList(fs, ctr)]

\* RoundedPolygon.calculateCenter; vertices is the flat list x0, y0, x1, ...
calculateCenter(vertices) ==
    LET n == Len(vertices) \div 2
        cumulativeX == SumSeq([i \in 1..n |-> vertices[2 * i - 1]])
        cumulativeY == SumSeq([i \in 1..n |-> vertices[2 * i]])
    IN  << MulDiv(cumulativeX, 1, n), MulDiv(cumulativeY, 1, n) >>

\* The anchor0 of every cubic of every feature, as a flat list.
Anchor0s(fs) ==
    LET cs == FlattenCubics(fs)
    IN  [i \in 1..(2 * Len(cs)) |->
            IF i % 2 = 1 THEN anchor0X(cs[(i + 1) \div 2]) ELSE anchor0Y(cs[i \div 2])]

\* RoundedPolygon.fromFeatures
fromFeatures(fs, centerX, centerY) ==
    LET vertices == Anchor0s(fs)
        centerX1 == IF centerX = NaN THEN calculateCenter(vertices)[1] ELSE centerX
        centerX2 == IF centerY = NaN THEN calculateCenter(vertices)[2] ELSE centerX1
    IN  RoundedPolygon(fs, << centerX2, centerY >>)

\* utils.ts convex: (current - previous).clockwise(next - current), the
\* sign of the cross product of the two sides.
convex(previous, current, next) ==
    (current[1] - previous[1]) * (next[2] - current[2])
        > (current[2] - previous[2]) * (next[1] - current[1])

\* Vertex i (0-based, taken modulo the number of vertices) of the flat list.
Vertex(vertices, i) ==
    LET k == i % (Len(vertices) \div 2)
    IN  << vertices[2 * k + 1], vertices[2 * k + 2] >>

\* RoundedCorner.getCubics where there is nothing to round (the corner's
\* radius or its allowed cut is below DistanceEpsilon): the corner point
\* as one cubic.
getCubicsPoint(p1) == << straightLine(p1[1], p1[2], p1[1], p1[2]) >>

\* The features that fromVertices assembles from the corners' cubics
\* (corners[i] for vertex i, 1-based here): a Corner for every vertex and
\* an Edge of one straight line to the next corner.
TempFeatures(vertices, corners) ==
    LET n == Len(vertices) \div 2
    IN  [j \in 1..(2 * n) |->
            LET i == (j - 1) \div 2
                this == corners[i + 1]
                that == corners[((i + 1) % n) + 1]
            IN  IF j % 2 = 1
                THEN Corner(this, convex(Vertex(vertices, i + n - 1), Vertex(vertices, i),
                                         Vertex(vertices, i + 1)))
                ELSE Edge(<< straightLine(anchor1X(this[Len(this)]), anchor1Y(this[Len(this)]),
                                          anchor0X(that[1]), anchor0Y(that[1])) >>)]

\* The center fromVertices hands to fromFeatures.
FromVerticesCenter(vertices, centerX, centerY) ==
    IF centerX = MIN_SAFE_INTEGER \/ centerY = MIN_SAFE_INTEGER
    THEN calculateCenter(vertices)
    ELSE << centerX, centerY >>

\* RoundedPolygon.fromVertices(vertices, rounding, perVertexRounding,
\* centerX, centerY) for roundings of radius 0, for which every corner is
\* its vertex (getCubicsPoint).
fromVertices(vertices, centerX, centerY) ==
    LET n == Len(vertices) \div 2
        corners == [i \in 1..n |-> getCubicsPoint(Vertex(vertices, i - 1))]
        ctr == FromVerticesCenter(vertices, centerX, centerY)
    IN  fromFeatures(TempFeatures(vertices, corners), ctr[1], ctr[2])

\* cos(PI / n) for n = 1, 2, ...
CosPiOver == << -One, 0, 500000, 707107, 809017, 866025, 900969, 923880, 939693, 951057 >>

\* RoundedPolygon.fromNumVertices, as the arguments it hands to
\* fromVertices: the vertices, numVertices points at distance radius of the
\* center, are kept as these two numbers (their centroid is that center);
\* vtxRounding is the rounding that fromVertices gives each of them.
fromNumVertices(numVertices, radius, centerX, centerY, rounding, perVertexRounding) ==
    [ numVertices |-> numVertices,
      radius      |-> radius,
      center      |-> FromVerticesCenter(<< centerX, centerY >>, centerX, centerY),
      vtxRounding |-> [j \in 1..numVertices |->
                         VtxRounding(perVertexRounding, rounding, j - 1)] ]

\* RoundedPolygon.circle.  The argument expression `radius = polygonRadius`
\* assigns the parameter radius before `new CornerRounding(radius)` is
\* evaluated.
circle(numVertices, radius, centerX, centerY) ==
    LET polygonRadius == Div(radius, CosPiOver[numVertices])
        radius1 == polygonRadius
    IN  fromNumVertices(numVertices, radius1, centerX, centerY,
                        CornerRounding(radius1, 0), NullList)

\* ------------------------------------------------------------ RoundedCorner

\* x * y for 0 <= x, y <= 2 * One as << high, low >>, the digits of the
\* product in base One, without leaving 32-bit integers.
Product(x, y) ==
    LET xh == x \div 1000
        xl == x % 1000
        yh == y \div 1000
        yl == y % 1000
        mid == xh * yl + xl * yh
        low == (mid % 1000) * 1000 + xl * yl
    IN  << xh * yh + (mid \div 1000) + (low \div One), low % One >>

\* p <= q for two such products.
ProductLeq(p, q) == p[1] < q[1] \/ (p[1] = q[1] /\ p[2] <= q[2])

RECURSIVE SqrtOfProductSearch(_, _, _)
SqrtOfProductSearch(p, lo, hi) ==
    IF lo >= hi THEN lo
    ELSE With((lo + hi + 1) \div 2,
              LAMBDA mid : IF ProductLeq(Product(mid, mid), p)
                           THEN SqrtOfProductSearch(p, mid, hi)
                           ELSE SqrtOfProductSearch(p, lo, mid - 1))

\* Math.sqrt(x * y) on the dimensionless grid, rounded down.
SqrtOfProduct(x, y) == SqrtOfProductSearch(Product(x, y), 0, 2 * One)

\* x / y and x * y on the dimensionless grid for x of either sign.
SignedDiv(x, y) == Sign(x) * Div(Abs(x), y)

SignedMul(x, y) == Sign(x) * Sign(y) * Mul(Abs(x), Abs(y))

\* new RoundedCorner(p0, p1, p2, rounding): the fields that the cuts depend
\* on.  Lengths are on the coordinate grid, cosAngle, sinAngle and
\* smoothing on the dimensionless grid.
RoundedCorner(p0, p1, p2, rounding) ==
    LET v01 == << p0[1] - p1[1], p0[2] - p1[2] >>
        v21 == << p2[1] - p1[1], p2[2] - p1[2] >>
        d01 == distance(v01[1], v01[2])
        d21 == distance(v21[1], v21[2])
    IN  IF d01 > 0 /\ d21 > 0
        THEN LET d1 == << SignedDiv(v01[1], d01), SignedDiv(v01[2], d01) >>
                 d2 == << SignedDiv(v21[1], d21), SignedDiv(v21[2], d21) >>
                 cosAngle == SignedMul(d1[1], d2[1]) + SignedMul(d1[2], d2[2])
                 sinAngle == SqrtOfProduct(One - cosAngle, One + cosAngle)
             IN  [ cornerRadius     |-> rounding.radius,
                   smoothing        |-> rounding.smoothing,
                   cosAngle         |-> cosAngle,
                   sinAngle         |-> sinAngle,
                   expectedRoundCut |-> IF sinAngle > 1000
                                        THEN MulDiv(rounding.radius, cosAngle + One, sinAngle)
                                        ELSE 0 ]
        ELSE [ cornerRadius |-> 0, smoothing |-> 0, cosAngle |-> 0, sinAngle |-> 0,
               expectedRoundCut |-> 0 ]

\* get expectedCut()
expectedCut(rc) == MulDiv(rc.expectedRoundCut, One + rc.smoothing, One)

\* RoundedCorner.calculateActualSmoothingValue(allowedCut)
calculateActualSmoothingValue(rc, allowedCut) ==
    IF allowedCut > expectedCut(rc) THEN rc.smoothing
    ELSE IF allowedCut > rc.expectedRoundCut
         THEN MulDiv(rc.smoothing, allowedCut - rc.expectedRoundCut,
                     expectedCut(rc) - rc.expectedRoundCut)
         ELSE 0

\* RoundedCorner.getCubics(allowedCut0, allowedCut1), as far as the sides
\* go: the distances from the vertex p1 to the outer anchors of the two
\* flanking curves (computeFlankingCurve's curveStart, at
\* actualRoundCut * (1 + actualSmoothingValues) along the side), and 0 for
\* both when the corner is left as a point.
FlankingCuts(rc, allowedCut0, allowedCut1) ==
    LET allowedCut == Min(allowedCut0, allowedCut1)
    IN  IF \/ rc.expectedRoundCut < DistanceEpsilonXY
           \/ allowedCut < DistanceEpsilonXY
           \/ rc.cornerRadius < DistanceEpsilonXY
        THEN << 0, 0 >>
        ELSE LET actualRoundCut == Min(allowedCut, rc.expectedRoundCut)
                 actualSmoothing0 == calculateActualSmoothingValue(rc, allowedCut0)
                 actualSmoothing1 == calculateActualSmoothingValue(rc, allowedCut1)
             IN  << MulDiv(actualRoundCut, One + actualSmoothing0, One),
                    MulDiv(actualRoundCut, One + actualSmoothing1, One) >>

\* fromVertices: sideSize of side ix (1-based), from vertex ix to the next.
SideSize(vertices, ix) ==
    LET vtx == Vertex(vertices, ix - 1)
        nextVtx == Vertex(vertices, ix)
    IN  distance(vtx[1] - nextVtx[1], vtx[2] - nextVtx[2])

\* cutAdjusts[ix] with every cut allowed in full, whatever the side's size.
CutAdjustInFull(vertices, roundedCorners, ix) == [a |-> One, b |-> One]

\* fromVertices: cutAdjusts[ix] (ix 1-based), how much of the expected
\* round cuts (a) and of the rest of the expected cuts (b) side ix has
\* room for.
CutAdjust(vertices, roundedCorners, ix) ==
    LET n == Len(roundedCorners)
        this == roundedCorners[ix]
        next == roundedCorners[(ix % n) + 1]
        expectedRoundCutSum == this.expectedRoundCut + next.expectedRoundCut
        expectedCutSum == expectedCut(this) + expectedCut(next)
        sideSize == SideSize(vertices, ix)
    IN  IF expectedRoundCutSum > sideSize
        THEN [a |-> Div(sideSize, expectedRoundCutSum), b |-> 0]
        ELSE IF expectedCutSum > sideSize
             THEN [a |-> One,
                   b |-> Div(sideSize - expectedRoundCutSum,
                             expectedCutSum - expectedRoundCutSum)]
             ELSE [a |-> One, b |-> One]

\* fromVertices: allowedCuts of corner i (1-based): for the side from the
\* previous corner and for the side to the next one.
AllowedCuts(roundedCorners, cutAdjusts, i) ==
    LET n == Len(roundedCorners)
        rc == roundedCorners[i]
        allowed(adjust) == Mul(adjust.a, rc.expectedRoundCut)
                           + Mul(adjust.b, expectedCut(rc) - rc.expectedRoundCut)
    IN  << allowed(cutAdjusts[((i + n - 2) % n) + 1]), allowed(cutAdjusts[i]) >>

\* fromVertices(vertices, rounding, perVertexRounding) up to the call of
\* getCubics: the RoundedCorners, cutAdjusts, every corner's allowedCuts
\* and what its getCubics cuts off the two sides.
fromVerticesCuts(vertices, rounding, perVertexRounding) ==
    LET n == Len(vertices) \div 2
    IN  With([i \in 1..n |->
                RoundedCorner(Vertex(vertices, i + n - 2),
                              Vertex(vertices, i - 1),
                              Vertex(vertices, i),
                              IF perVertexRounding # NullList THEN perVertexRounding[i]
                              ELSE rounding)],
             LAMBDA roundedCorners :
        With([ix \in 1..n |-> CutAdjust(vertices, roundedCorners, ix)], LAMBDA cutAdjusts :
        With([i \in 1..n |-> AllowedCuts(roundedCorners, cutAdjusts, i)], LAMBDA allowedCuts :
            [ roundedCorners |-> roundedCorners,
              cutAdjusts     |-> cutAdjusts,
              allowedCuts    |-> allowedCuts,
              cuts           |-> [i \in 1..n |->
                                    FlankingCuts(roundedCorners[i], allowedCuts[i][1],
                                                 allowedCuts[i][2])] ])))

\* ------------------------------------------------------------ objects

\* The operations above compute with values.  Here the objects that the
\* code writes to after they were created are kept in a heap, to see which
\* object every write lands in: the point arrays of the Cubic objects, the
\* MeasuredCubic objects (whose progress range updateProgressRange
\* overwrites) and the bounds arrays.  A reference is the position of the
\* object in its list, 0 is null.
EmptyHeap == [cubics |-> << >>, measured |-> << >>, bounds |-> << >>]

\* new Cubic(points)
NewCubic(hp, points) ==
    [heap |-> [hp EXCEPT !.cubics = Append(@, points)], ref |-> Len(hp.cubics) + 1]

\* new Cubic(points) for each element of a list of point arrays.
NewCubics(hp, pointsList) ==
    [ heap |-> [hp EXCEPT !.cubics = @ \o [i \in 1..Len(pointsList) |-> pointsList[i]]],
      refs |-> [i \in 1..Len(pointsList) |-> Len(hp.cubics) + i] ]

\* cubic.points = points, element by element, for the Cubic at ref.
SetPoints(hp, ref, points) == [hp EXCEPT !.cubics[ref] = points]

\* buildCubicList patching lastCubic itself, without the copy.
PatchInPlace(hp, ref) == [heap |-> hp, ref |-> ref]

\* lastCubic = new Cubic([...lastCubic.points]): the copy made before
\* mutating.
CopyBeforeMutating(hp, ref) == NewCubic(hp, hp.cubics[ref])

\* The features with their cubics' point arrays in place of the references.
Deref(hp, fs) ==
    [i \in 1..Len(fs) |->
        [fs[i] EXCEPT !.cubics = [j \in 1..Len(fs[i].cubics) |-> hp.cubics[fs[i].cubics[j]]]]]

\* The point arrays of a list of references.
DerefCubics(hp, refs) == [i \in 1..Len(refs) |-> hp.cubics[refs[i]]]

\* CubicListStep on references; st holds the heap next to result,
\* firstCubic and lastCubic.
ObjCubicListStep(st, ref) ==
    LET cubic == st.heap.cubics[ref]
    IN  IF ~zeroLength(cubic)
        THEN [st EXCEPT !.result = IF st.lastCubic # 0 THEN Append(@, st.lastCubic) ELSE @,
                        !.lastCubic = ref,
                        !.firstCubic = IF @ = 0 THEN ref ELSE @]
        ELSE IF st.lastCubic # 0
             THEN With(CopyBeforeMutating(st.heap, st.lastCubic), LAMBDA copy :
                    [st EXCEPT !.heap = SetPoints(copy.heap, copy.ref,
                                           [copy.heap.cubics[copy.ref] EXCEPT
                                               ![7] = anchor1X(cubic), ![8] = anchor1Y(cubic)]),
                               !.lastCubic = copy.ref])
             ELSE st

RECURSIVE ObjCubicListLoop(_, _)
ObjCubicListLoop(st, refs) ==
    IF refs = << >> THEN st
    ELSE With(ObjCubicListStep(st, Head(refs)), LAMBDA next : ObjCubicListLoop(next, Tail(refs)))

\* CubicListOrder on references: the two halves of the split are new Cubics.
ObjCubicListOrder(hp, fs) ==
    IF Len(fs) > 0 /\ Len(fs[1].cubics) = 3
    THEN With(split(hp.cubics[fs[1].cubics[2]], Half), LAMBDA halves :
         With(NewCubics(hp, << halves.a, halves.b >>), LAMBDA made :
            [ heap  |-> made.heap,
              order |-> << made.refs[2], fs[1].cubics[3] >> \o FlattenCubics(Tail(fs))
                          \o << fs[1].cubics[1], made.refs[1] >> ]))
    ELSE [heap |-> hp, order |-> FlattenCubics(fs)]

\* buildCubicList on references: the heap it leaves and the list it returns.
ObjBuildCubicList(hp, fs, ctr) ==
    With(ObjCubicListOrder(hp, fs), LAMBDA walk :
    With(ObjCubicListLoop([heap |-> walk.heap, result |-> << >>,
                           lastCubic |-> 0, firstCubic |-> 0], walk.order),
         LAMBDA st :
    With(NewCubic(st.heap,
                  IF st.lastCubic # 0 /\ st.firstCubic # 0
                  THEN ClosingCubic(st.heap.cubics[st.lastCubic], st.heap.cubics[st.firstCubic])
                  ELSE emptyCubic(ctr[1], ctr[2])),
         LAMBDA made : [heap |-> made.heap, cubics |-> Append(st.result, made.ref)])))

\* new RoundedPolygon(features, center) on references.
ObjRoundedPolygon(hp, fs, ctr) ==
    With(ObjBuildCubicList(hp, fs, ctr), LAMBDA built :
        [ heap |-> built.heap,
          obj  |-> [features |-> fs, center |-> ctr, cubics |-> built.cubics] ])

\* The smallest and the largest element of a set of numbers.
SetMin(S) == CHOOSE v \in S : \A w \in S : v <= w

SetMax(S) == CHOOSE v \in S : \A w \in S : v >= w

\* Cubic.calculateBounds(bounds, approximate = true): what it writes to
\* bounds.
CubicBounds(c) ==
    IF zeroLength(c)
    THEN << anchor0X(c), anchor0Y(c), anchor0X(c), anchor0Y(c) >>
    ELSE << SetMin({anchor0X(c), anchor1X(c), control0X(c), control1X(c)}),
            SetMin({anchor0Y(c), anchor1Y(c), control0Y(c), control1Y(c)}),
            SetMax({anchor0X(c), anchor1X(c), control0X(c), control1X(c)}),
            SetMax({anchor0Y(c), anchor1Y(c), control0Y(c), control1Y(c)}) >>

\* new array for `bounds: number[] = []`
NewBounds(hp) ==
    [heap |-> [hp EXCEPT !.bounds = Append(@, << >>)], ref |-> Len(hp.bounds) + 1]

\* RoundedPolygon.calculateBounds(bounds) with approximate left at true:
\* every cubic writes its bounds to the array at boundsRef, then the
\* polygon's bounds are written to it.
ObjCalculateBounds(hp, polygon, boundsRef) ==
    LET each == { CubicBounds(hp.cubics[polygon.cubics[i]]) : i \in 1..Len(polygon.cubics) }
    IN  [hp EXCEPT !.bounds[boundsRef] =
            << SetMin({MAX_SAFE_INTEGER} \cup { b[1] : b \in each }),
               SetMin({MAX_SAFE_INTEGER} \cup { b[2] : b \in each }),
               SetMax({MIN_SAFE_INTEGER} \cup { b[3] : b \in each }),
               SetMax({MIN_SAFE_INTEGER} \cup { b[4] : b \in each }) >>]

\* 1 as a coordinate.
OneXY == One \div 50

\* The PointTransformers used: f(x, y) = ((x + offsetX) * num / den,
\* (y + offsetY) * num / den).
ApplyTransformer(f, x, y) ==
    << MulDiv(x + f.offsetX, f.num, f.den), MulDiv(y + f.offsetY, f.num, f.den) >>

\* MutableCubic.transform: the points after it.
TransformedPoints(c, f) ==
    LET q == [k \in 1..4 |-> ApplyTransformer(f, c[2 * k - 1], c[2 * k])]
    IN  [k \in 1..8 |-> q[(k + 1) \div 2][2 - (k % 2)]]

\* Cubic.transformed(f): a new MutableCubic over a copy of the points,
\* which transform then overwrites.
ObjCubicTransformed(hp, ref, f) ==
    With(NewCubic(hp, hp.cubics[ref]), LAMBDA made :
        [ heap |-> SetPoints(made.heap, made.ref, TransformedPoints(made.heap.cubics[made.ref], f)),
          ref  |-> made.ref ])

RECURSIVE ObjCubicsTransformed(_, _, _)
ObjCubicsTransformed(hp, refs, f) ==
    IF refs = << >> THEN [heap |-> hp, refs |-> << >>]
    ELSE With(ObjCubicTransformed(hp, Head(refs), f), LAMBDA made :
         With(ObjCubicsTransformed(made.heap, Tail(refs), f), LAMBDA more :
            [heap |-> more.heap, refs |-> << made.ref >> \o more.refs]))

\* features.map(x => x.transformed(f))
RECURSIVE ObjFeaturesTransformed(_, _, _)
ObjFeaturesTransformed(hp, fs, f) ==
    IF fs = << >> THEN [heap |-> hp, features |-> << >>]
    ELSE With(ObjCubicsTransformed(hp, Head(fs).cubics, f), LAMBDA made :
         With(ObjFeaturesTransformed(made.heap, Tail(fs), f), LAMBDA more :
            [ heap     |-> more.heap,
              features |-> << [Head(fs) EXCEPT !.cubics = made.refs] >> \o more.features ]))

\* RoundedPolygon.transformed(f)
ObjTransformed(hp, polygon, f) ==
    With(ObjFeaturesTransformed(hp, polygon.features, f), LAMBDA made :
        ObjRoundedPolygon(made.heap, made.features,
                          ApplyTransformer(f, polygon.center[1], polygon.center[2])))

\* RoundedPolygon.normalized()
ObjNormalized(hp, polygon) ==
    With(NewBounds(hp), LAMBDA array :
    With(ObjCalculateBounds(array.heap, polygon, array.ref), LAMBDA measured :
        LET bounds == measured.bounds[array.ref]
            width == bounds[3] - bounds[1]
            height == bounds[4] - bounds[2]
            side == Max(width, height)
        IN  ObjTransformed(measured,  polygon,
                           [ offsetX |-> ((side - width) \div 2) - bounds[1],
                             offsetY |-> ((side - height) \div 2) - bounds[2],
                             num |-> OneXY, den |-> side ])))

\* new MeasuredCubic(polygon, cubic, startOutlineProgress, endOutlineProgress)
\* on references: the object holds the reference of its cubic.
NewMeasuredCubic(hp, ref, startOutlineProgress, endOutlineProgress) ==
    [ heap |-> [hp EXCEPT !.measured =
                   Append(@, [ cubic |-> ref,
                               startOutlineProgress |-> startOutlineProgress,
                               endOutlineProgress |-> endOutlineProgress,
                               measuredSize |-> measureCubic(hp.cubics[ref]) ])],
      ref  |-> Len(hp.measured) + 1 ]

\* The MeasuredCubic at ref with its cubic's point array in place of the
\* reference.
MeasuredValue(hp, ref) == [hp.measured[ref] EXCEPT !.cubic = hp.cubics[@]]

\* MeasuredCubicsLoop on references.
RECURSIVE ObjMeasuredCubicsLoop(_, _, _, _, _)
ObjMeasuredCubicsLoop(hp, refs, outlineProgress, i, startOutlineProgress) ==
    IF i > Len(refs) THEN [heap |-> hp, refs |-> << >>]
    ELSE IF (outlineProgress[i + 1] - outlineProgress[i]) > DistanceEpsilon
         THEN With(NewMeasuredCubic(hp, refs[i], startOutlineProgress, outlineProgress[i + 1]),
                   LAMBDA made :
              With(ObjMeasuredCubicsLoop(made.heap, refs, outlineProgress, i + 1,
                                         outlineProgress[i + 1]),
                   LAMBDA more : [heap |-> more.heap, refs |-> << made.ref >> \o more.refs]))
         ELSE ObjMeasuredCubicsLoop(hp, refs, outlineProgress, i + 1, startOutlineProgress)

\* new MeasuredPolygon(measurer, features, cubics, outlineProgress) on
\* references; updateProgressRange overwrites the range of the last
\* MeasuredCubic made.
ObjMeasuredPolygon(hp, pfs, refs, outlineProgress) ==
    With(ObjMeasuredCubicsLoop(hp, refs, outlineProgress, 1, 0), LAMBDA made :
        LET n == Len(made.refs)
        IN  IF n = 0 THEN [heap |-> made.heap, obj |-> ThrewPolygon]
            ELSE [ heap |-> [made.heap EXCEPT
                               !.measured[made.refs[n]].endOutlineProgress = One],
                   obj  |-> [threw |-> FALSE, features |-> pfs, cubics |-> made.refs] ])

\* measurePolygon on references.
ObjMeasurePolygon(hp, polygon) ==
    With(FlattenCubics(polygon.features), LAMBDA refs :
    With(FeatureToCubic(Deref(hp, polygon.features), 1, 0), LAMBDA featureToCubic :
    With(Measures(DerefCubics(hp, refs), 0), LAMBDA measures :
      LET totalMeasure == measures[Len(measures)]
      IN  IF totalMeasure = 0 THEN [heap |-> hp, obj |-> ThrewPolygon]
          ELSE
            With([i \in 1..Len(measures) |-> Div(measures[i], totalMeasure)],
                 LAMBDA outlineProgress :
            With([i \in 1..Len(featureToCubic) |->
                    LET ix == featureToCubic[i].b + 1
                    IN  ProgressableFeature(
                          positiveModulo((outlineProgress[ix] + outlineProgress[ix + 1]) \div 2),
                          featureToCubic[i].a, i)],
                 LAMBDA pfs : ObjMeasuredPolygon(hp, pfs, refs, outlineProgress))))))

\* The MeasuredPolygon with values in place of references.
MeasuredPolygonValue(hp, mp) ==
    [mp EXCEPT !.cubics = [i \in 1..Len(mp.cubics) |-> MeasuredValue(hp, mp.cubics[i])]]

\* cutAtProgress on references: the two parts are new Cubics held by new
\* MeasuredCubics.
ObjCutAtProgress(hp, ref, cutOutlineProgress) ==
    With(cutAtProgress(MeasuredValue(hp, ref), cutOutlineProgress), LAMBDA parts :
    With(NewCubics(hp, << parts.a.cubic, parts.b.cubic >>), LAMBDA made :
    With(NewMeasuredCubic(made.heap, made.refs[1], parts.a.startOutlineProgress,
                          parts.a.endOutlineProgress), LAMBDA first :
    With(NewMeasuredCubic(first.heap, made.refs[2], parts.b.startOutlineProgress,
                          parts.b.endOutlineProgress), LAMBDA second :
        [heap |-> second.heap, a |-> made.refs[1], b |-> made.refs[2]]))))

\* cutAndShift on references: the heap it leaves and the MeasuredPolygon it
\* returns, which is the receiver itself for a small cuttingPoint.
ObjCutAndShift(hp, mp, cuttingPoint) ==
    IF cuttingPoint < DistanceEpsilon THEN [heap |-> hp, obj |-> mp]
    ELSE
      With(MeasuredPolygonValue(hp, mp).cubics, LAMBDA mcs :
      With(TargetIndex(mcs, cuttingPoint, 1), LAMBDA targetIndex :
        IF targetIndex = 0 THEN [heap |-> hp, obj |-> ThrewPolygon]
        ELSE
          With(ObjCutAtProgress(hp, mp.cubics[targetIndex], cuttingPoint), LAMBDA cut :
             LET n == Len(mcs)
                 retCubics ==
                     << cut.b >>
                     \o [i \in 1..(n - 1) |->
                           hp.measured[mp.cubics[((i + targetIndex - 1) % n) + 1]].cubic]
                     \o << cut.a >>
                 retOutlineProgress ==
                     << 0 >>
                     \o [i \in 1..n |->
                           positiveModulo(mcs[((targetIndex - 1 + i - 1) % n) + 1]
                                            .endOutlineProgress - cuttingPoint)]
                     \o << One >>
                 newFeatures ==
                     [i \in 1..Len(mp.features) |->
                        ProgressableFeature(positiveModulo(mp.features[i].progress - cuttingPoint),
                                            mp.features[i].feature, mp.features[i].ref)]
             IN  With(retCubics, LAMBDA refs :
                 With(retOutlineProgress, LAMBDA outlineProgress :
                    ObjMeasuredPolygon(cut.heap, newFeatures, refs, outlineProgress))))))

\* new Morph(start, end) on references: the pairs of match, each cubic an
\* object of its own in the heap.
ObjMorph(hp, fs1, fs2) ==
    With(match(fs1, fs2), LAMBDA built :
    With(NewCubics(hp, [k \in 1..(2 * Len(built.morphMatch)) |->
                          IF k % 2 = 1 THEN built.morphMatch[(k + 1) \div 2].a
                          ELSE built.morphMatch[k \div 2].b]),
         LAMBDA made :
        [ heap |-> made.heap,
          obj  |-> [ threw |-> built.threw,
                     morphMatch |-> [i \in 1..Len(built.morphMatch) |->
                                       [a |-> made.refs[2 * i - 1], b |-> made.refs[2 * i]]] ] ]))

\* The pairs with point arrays in place of references.
DerefPairs(hp, mm) ==
    [i \in 1..Len(mm) |-> [a |-> hp.cubics[mm[i].a], b |-> hp.cubics[mm[i].b]]]

\* asCubics on references: every interpolated cubic and the closing cubic
\* are new Cubics; ret holds all but the last interpolated one, then the
\* closing one.
ObjAsCubics(hp, mm, progress) ==
    With([i \in 1..Len(mm) |-> InterpolatedCubic(DerefPairs(hp, mm)[i], progress)],
         LAMBDA interpolated :
    With(NewCubics(hp, interpolated), LAMBDA made :
        IF Len(mm) = 0 THEN [heap |-> hp, ret |-> << >>]
        ELSE With(NewCubic(made.heap, SeamCubic(interpolated[Len(mm)], interpolated[1])),
                  LAMBDA closing :
                [ heap |-> closing.heap,
                  ret  |-> SubSeq(made.refs, 1, Len(mm) - 1) \o << closing.ref >> ])))

\* forEachCubic on references, from pair i on: mutableCubic.interpolate
\* overwrites the points of the caller's cubic, which callback then sees.
RECURSIVE ObjForEachCubic(_, _, _, _, _)
ObjForEachCubic(hp, mm, progress, mutableCubic, i) ==
    IF i > Len(mm) THEN [heap |-> hp, seen |-> << >>]
    ELSE With(SetPoints(hp, mutableCubic, InterpolatedCubic(DerefPairs(hp, mm)[i], progress)),
              LAMBDA written :
         With(ObjForEachCubic(written, mm, progress, mutableCubic, i + 1), LAMBDA more :
            [heap |-> more.heap, seen |-> << written.cubics[mutableCubic] >> \o more.seen]))

\* ------------------------------------------------------------ polygons checked

\* Longest feature list given to the RoundedPolygon constructor.
MaxFeatures == 2

Line(p, q) == straightLine(p[1], p[2], q[1], q[2])

\* Three points, two of them closer than DistanceEpsilon.
PolyPoints == { <<0, 0>>, <<1, 1>>, <<24, 24>> }

CornerLines == { Line(<<0, 0>>, <<24, 24>>), Line(<<24, 24>>, <<0, 0>>),
                 Line(<<0, 0>>, <<1, 1>>) }

\* Edges of one line, corners of one zero-length cubic (an unrounded
\* vertex) and corners of three cubics, continuous or not.
PolyFeatures ==
    { Edge(<< Line(p, q) >>) : p \in PolyPoints, q \in PolyPoints }
    \cup { Corner(<< Line(p, p) >>, TRUE) : p \in PolyPoints }
    \cup { Corner(<< c1, c2, c3 >>, TRUE) :
             c1 \in CornerLines, c2 \in CornerLines, c3 \in CornerLines }

\* A closed, continuous outline of four edges whose second edge is
\* zero-length and ends closer than DistanceEpsilon to the start of the
\* first, which is not zero-length.
DriftOutline ==
    << Edge(<< Line(<<0, 0>>, <<2, 0>>) >>), Edge(<< Line(<<2, 0>>, <<1, 0>>) >>),
       Edge(<< Line(<<1, 0>>, <<6000, 6000>>) >>), Edge(<< Line(<<6000, 6000>>, <<0, 0>>) >>) >>

FeatureLists ==
    UNION { [1..n -> PolyFeatures] : n \in 0..MaxFeatures } \cup { DriftOutline }

PolyIdle == features = << >> /\ center = <<0, 0>> /\ cubics = << >>

PolyInit ==
    /\ features \in FeatureLists
    /\ center = <<12, 12>>
    /\ cubics = << >>

\* new RoundedPolygon(features, center)
Construct ==
    /\ cubics = << >>
    /\ cubics' = buildCubicList(features, center)
    /\ UNCHANGED << features, center >>
    /\ UNCHANGED << morphVars, mappingHelper, mapperVars, starVars, restVars >>

\* No Morph: nothing constructed, nothing returned.
NoMorph ==
    [ threw |-> FALSE, morphMatch |-> << >>, bs1 |-> ThrewPolygon, bs2 |-> ThrewPolygon,
      mapping |-> << >>, pairs |-> << >>, candidates |-> << >>,
      b1 |-> Undefined, b2 |-> Undefined ]

\* No call yet: no progress, no cubics.
NoCubics == [progress |-> -1, ret |-> << >>]

MorphIdle ==
    /\ startPolygon = << >>
    /\ endPolygon = << >>
    /\ morph = NoMorph
    /\ asCubicsRet = NoCubics
    /\ callbackCubics = NoCubics

MappingIdle == mappingHelper = NewHelper

\* No value yet: a number that linearMap never returns.
Unset == NoSegment - 1

MapperIdle ==
    /\ mapper = DoubleMapper(<< >>)
    /\ xIn = Unset
    /\ mapped = Unset
    /\ mappedBack = Unset
    /\ yIn = Unset
    /\ yBack = Unset

StarIdle ==
    /\ starArgs = [ numVerticesPerRadius |-> 0, radius |-> 0, innerRadius |-> 0,
                    rounding |-> Unrounded, innerRounding |-> NullRounding,
                    perVertexRounding |-> NullList, length |-> NoGlobal ]
    /\ starRet = NotCalled

\* No factory called.
NoFactoryArgs ==
    [ op |-> "none", numVertices |-> 0, radius |-> 0, vertices |-> << >>,
      hasCenterX |-> FALSE, centerX |-> 0, hasCenterY |-> FALSE, centerY |-> 0 ]

NoPolygon == [features |-> << >>, center |-> << 0, 0 >>, cubics |-> << >>]

FactoryIdle == factoryArgs = NoFactoryArgs /\ factoryRet = NoPolygon

\* No MeasuredPolygon: measurePolygon has not been called.
NotMeasured == [threw |-> FALSE, features |-> << >>, cubics |-> << >>]

MeasuredIdle ==
    /\ measuredSource = << >>
    /\ measuredPolygon = NotMeasured
    /\ cutsDone = << >>

\* No Morph object: its constructor has not been called.
NoObjMorph == [threw |-> FALSE, morphMatch |-> << >>]

ObjIdle ==
    /\ heap = EmptyHeap
    /\ objFeatures = << >>
    /\ objPolygon = NoPolygon
    /\ objMeasured = NotMeasured
    /\ objMorph = NoObjMorph
    /\ objScratch = 0
    /\ objBounds = 0
    /\ objCalls = << >>

\* fromVertices has not been called.
NoCuts == [roundedCorners |-> << >>, cutAdjusts |-> << >>, allowedCuts |-> << >>,
           cuts |-> << >>]

CutIdle ==
    /\ cutArgs = [vertices |-> << >>, rounding |-> Unrounded, perVertexRounding |-> NullList]
    /\ cutRet = NoCuts


LmIdle == lmCubic = << >> /\ lmSize = Unset /\ lmCuts = << >>


FmIdle ==
    /\ fmFeatures1 = << >>
    /\ fmFeatures2 = << >>
    /\ fmHelper = NewHelper
    /\ fmX = Unset
    /\ fmMapped = Unset


RevIdle == revFeature = Edge(<< >>) /\ revResults = << >>

RestIdle == FactoryIdle /\ MeasuredIdle /\ ObjIdle /\ CutIdle /\ LmIdle /\ FmIdle /\ RevIdle

\* The variables and the idle states of the specifications further up.
firstVars == << polyVars, morphVars, mappingHelper, mapperVars, starVars >>

FirstIdle == PolyIdle /\ MorphIdle /\ MappingIdle /\ MapperIdle /\ StarIdle

InitPolygon == PolyInit /\ MorphIdle /\ MappingIdle /\ MapperIdle /\ StarIdle /\ RestIdle

NextPolygon == Construct

SpecPolygon == InitPolygon /\ [][NextPolygon]_vars

\* ------------------------------------------------------------ morphs checked

\* asCubics and forEachCubic are called with progress k / MaxProgressSteps.
MaxProgressSteps == 2

Progresses == { (k * One) \div MaxProgressSteps : k \in 0..MaxProgressSteps }

\* The cubics of the polyline through pts.
Path(pts) == [i \in 1..(Len(pts) - 1) |-> Line(pts[i], pts[i + 1])]

\* The point at distance d from v on the axis-parallel segment from v to q.
Towards(v, q, d) == << v[1] + Sign(q[1] - v[1]) * d, v[2] + Sign(q[2] - v[2]) * d >>

\* One feature of two cubics, of the given kind.
CornerFeature(kind, cs) ==
    IF kind = "edge" THEN Edge(cs) ELSE Corner(cs, kind = "convex")

\* The w x h rectangle as eight features: at each vertex two lines of
\* length d meeting at the vertex (a corner, convex or concave, or an edge,
\* as kinds says), and between two vertices an edge of one line.
Rect(w, h, d, kinds) ==
    LET v == << <<0, 0>>, <<w, 0>>, <<w, h>>, <<0, h>> >>
        prev(i) == v[((i + 2) % 4) + 1]
        next(i) == v[(i % 4) + 1]
        corner(i) == CornerFeature(kinds[i],
                        Path(<< Towards(v[i], prev(i), d), v[i], Towards(v[i], next(i), d) >>))
        side(i) == Edge(Path(<< Towards(v[i], next(i), d), Towards(next(i), v[i], d) >>))
    IN  << corner(1), side(1), corner(2), side(2), corner(3), side(3), corner(4), side(4) >>

\* A 9000 x 6000 rectangle whose only corners are two features of two
\* short lines each, next to each other around the start of the outline.
NotchStart ==
    << Corner(Path(<< <<0, 30>>, <<0, 0>>, <<30, 0>> >>), TRUE),
       Edge(Path(<< <<30, 0>>, <<9000, 0>>, <<9000, 6000>>, <<0, 6000>>, <<0, 90>> >>)),
       Corner(Path(<< <<0, 90>>, <<0, 60>>, <<0, 30>> >>), TRUE) >>

\* The same rectangle with its two corners half an outline apart and its
\* lower side made of two lines.
NotchEnd ==
    << Corner(Path(<< <<0, 120>>, <<0, 90>>, <<0, 60>> >>), TRUE),
       Edge(Path(<< <<0, 60>>, <<0, 0>>, <<3669, 0>>, <<9000, 0>>, <<9000, 5880>> >>)),
       Corner(Path(<< <<9000, 5880>>, <<9000, 5910>>, <<9000, 5940>> >>), TRUE),
       Edge(Path(<< <<9000, 5940>>, <<9000, 6000>>, <<0, 6000>>, <<0, 120>> >>)) >>

\* The polygons morphed: rectangles with four convex corners (one of them
\* large, with corner lines so short that their outline progress is below
\* DistanceEpsilon), with convex and concave corners, with one convex
\* corner, with one concave and one convex corner, and the two notched ones.
MorphPolygons ==
    { Rect(9000, 6000, 30, << "convex", "convex", "convex", "convex" >>),
      Rect(18000, 12000, 3, << "convex", "convex", "convex", "convex" >>),
      Rect(6000, 6000, 300, << "convex", "concave", "convex", "concave" >>),
      Rect(6000, 3000, 300, << "convex", "edge", "edge", "edge" >>),
      Rect(6000, 3000, 300, << "concave", "convex", "edge", "edge" >>),
      NotchStart,
      NotchEnd }

MorphInit ==
    /\ startPolygon \in MorphPolygons
    /\ endPolygon \in MorphPolygons
    /\ morph = NoMorph
    /\ asCubicsRet = NoCubics
    /\ callbackCubics = NoCubics

\* new Morph(start, end)
NewMorph ==
    /\ morph = NoMorph
    /\ morph' = match(startPolygon, endPolygon)
    /\ UNCHANGED << startPolygon, endPolygon, asCubicsRet, callbackCubics >>
    /\ UNCHANGED << polyVars, mappingHelper, mapperVars, starVars, restVars >>

\* A Morph exists: its constructor returned.
Built == morph # NoMorph /\ ~morph.threw

\* morph.asCubics(progress)
AsCubics(progress) ==
    /\ Built
    /\ asCubicsRet' = [progress |-> progress, ret |-> asCubics(morph.morphMatch, progress)]
    /\ UNCHANGED << startPolygon, endPolygon, morph, callbackCubics >>
    /\ UNCHANGED << polyVars, mappingHelper, mapperVars, starVars, restVars >>

\* morph.forEachCubic(progress, new MutableCubic(), callback)
ForEachCubic(progress) ==
    /\ Built
    /\ callbackCubics' = [progress |-> progress,
                          ret |-> forEachCubic(morph.morphMatch, progress)]
    /\ UNCHANGED << startPolygon, endPolygon, morph, asCubicsRet >>
    /\ UNCHANGED << polyVars, mappingHelper, mapperVars, starVars, restVars >>

InitMorph == MorphInit /\ PolyIdle /\ MappingIdle /\ MapperIdle /\ StarIdle /\ RestIdle

NextMorph ==
    \/ NewMorph
    \/ \E progress \in Progresses : AsCubics(progress)
    \/ \E progress \in Progresses : ForEachCubic(progress)

SpecMorph == InitMorph /\ [][NextMorph]_vars

\* ------------------------------------------------------------ mappings checked

\* Number of features on each side that addMapping is called with.
MaxCandidates == 5

\* The outline progress of the features of the first and of the second
\* polygon: far apart, closer than DistanceEpsilon, and equal.
Progress1 == << 100000, 900000, 950000, 100050, 900000, 500000 >>

Progress2 == << 100000, 900000, 500000, 300000, 100050, 950000 >>

\* The corners of the two polygons, as measurePolygon hands them over.
Features1 ==
    [i \in 1..MaxCandidates |-> ProgressableFeature(Progress1[i], Corner(<< >>, TRUE), i)]

Features2 ==
    [i \in 1..MaxCandidates |-> ProgressableFeature(Progress2[i], Corner(<< >>, TRUE), i)]

MappingInit == mappingHelper = NewHelper

\* helper.addMapping(f1, f2)
AddMapping(f1, f2) ==
    /\ ~mappingHelper.threw
    /\ mappingHelper' = addMapping(mappingHelper, f1, f2)
    /\ UNCHANGED << polyVars, morphVars, mapperVars, starVars, restVars >>

InitMapping == MappingInit /\ PolyIdle /\ MorphIdle /\ MapperIdle /\ StarIdle /\ RestIdle

NextMapping ==
    \E i \in 1..MaxCandidates : \E j \in 1..MaxCandidates :
        AddMapping(Features1[i], Features2[j])

SpecMapping == InitMapping /\ [][NextMapping]_vars

\* ------------------------------------------------------------ mappers checked

\* Largest number of anchors of a DoubleMapper.
MaxAnchors == 3

\* The values of the anchors: multiples of 4e-6, some closer than 0.001
\* (0 and 0.0001, 0.0001 and 0.001, 0.9996 and 0).
AnchorGrid == { 0, 100, 1000, 500000, 999600 }

\* The sum of the steps from each value to the next one, going around the
\* list and around the circle [0, 1) in increasing direction: One when the
\* values wind around the circle once.
Winding(vals) ==
    SumSeq([i \in 1..Len(vals) |-> positiveModulo(vals[(i % Len(vals)) + 1] - vals[i])])

\* The values go around the circle exactly once, strictly increasing.
CyclicallyIncreasing(vals) ==
    /\ \A i \in 1..Len(vals) : vals[(i % Len(vals)) + 1] # vals[i]
    /\ Winding(vals) = One

AnchorLists ==
    UNION { { l \in [1..n -> [a : AnchorGrid, b : AnchorGrid]] :
                /\ CyclicallyIncreasing([i \in 1..n |-> l[i].a])
                /\ CyclicallyIncreasing([i \in 1..n |-> l[i].b]) } : n \in 2..MaxAnchors }

\* Anchor lists that do not go around the circle: no anchor, one anchor,
\* and two anchors with the same a or the same b.
FewAnchorLists ==
    { << >> }
    \cup { << r >> : r \in [a : AnchorGrid, b : AnchorGrid] }
    \cup { l \in [1..2 -> [a : AnchorGrid, b : AnchorGrid]] :
             l[1] # l[2] /\ (l[1].a = l[2].a \/ l[1].b = l[2].b) }

\* The points at 0, 1/4, 1/2 and 3/4 of every cyclic segment between two
\* neighbours of vals and, when vals does not go around the circle, two
\* points more.
Probes(vals) ==
    { (vals[i] + k * (positiveModulo(vals[(i % Len(vals)) + 1] - vals[i]) \div 4)) % One :
        i \in 1..Len(vals), k \in 0..3 }
    \cup (IF Len(vals) >= 2 /\ Winding(vals) = One THEN {} ELSE {250000, 999600})

\* The x given to map: the anchors and the points at 1/4, 1/2 and 3/4 of
\* every segment between two anchors, for which linearMap's quotients and
\* products are exact.
Inputs(dm) == Probes(dm.sourceValues)

MapperInit ==
    /\ mapper \in { DoubleMapper(l) : l \in AnchorLists \cup FewAnchorLists }
    /\ xIn = Unset
    /\ mapped = Unset
    /\ mappedBack = Unset
    /\ yIn = Unset
    /\ yBack = Unset

\* mapper.map(x)
Map(x) ==
    /\ xIn = Unset
    /\ yIn = Unset
    /\ xIn' = x
    /\ mapped' = map(mapper, x)
    /\ UNCHANGED << mapper, mappedBack, yIn, yBack >>
    /\ UNCHANGED << polyVars, morphVars, mappingHelper, starVars, restVars >>

\* mapper.mapBack(y) for the y that map returned
MapBack ==
    /\ mapped # Unset
    /\ mapped # NoSegment
    /\ mappedBack = Unset
    /\ mappedBack' = mapBack(mapper, mapped)
    /\ UNCHANGED << mapper, xIn, mapped, yIn, yBack >>
    /\ UNCHANGED << polyVars, morphVars, mappingHelper, starVars, restVars >>

\* mapper.mapBack(y) for a y of the caller's, on a mapper not used so far
MapBackAt(y) ==
    /\ xIn = Unset
    /\ yIn = Unset
    /\ yIn' = y
    /\ yBack' = mapBack(mapper, y)
    /\ UNCHANGED << mapper, xIn, mapped, mappedBack >>
    /\ UNCHANGED << polyVars, morphVars, mappingHelper, starVars, restVars >>

InitDoubleMapper == MapperInit /\ PolyIdle /\ MorphIdle /\ MappingIdle /\ StarIdle /\ RestIdle

NextDoubleMapper ==
    \/ \E x \in Inputs(mapper) : Map(x)
    \/ MapBack
    \/ \E y \in Probes(mapper.targetValues) : MapBackAt(y)

SpecDoubleMapper == InitDoubleMapper /\ [][NextDoubleMapper]_vars

\* ------------------------------------------------------------ stars checked

\* Largest numVerticesPerRadius given to star.
MaxVerticesPerRadius == 3

\* Largest value of the global `length` (in a browser, window.length).
MaxGlobalLength == 2

Roundings == { Unrounded, CornerRounding(100000, 0), CornerRounding(200000, 500000) }

StarInit ==
    /\ starArgs \in
         { [ numVerticesPerRadius |-> n, radius |-> 2 * One, innerRadius |-> One,
             rounding |-> r, innerRounding |-> ir,
             perVertexRounding |-> pvr, length |-> len ] :
             n \in 2..MaxVerticesPerRadius,
             r \in Roundings \ {Unrounded},
             ir \in Roundings \cup {NullRounding},
             pvr \in {NullList, << Unrounded >>},
             len \in {NoGlobal} \cup 0..MaxGlobalLength }
    /\ starRet = NotCalled

\* RoundedPolygon.star(numVerticesPerRadius, radius, innerRadius, rounding,
\* innerRounding, perVertexRounding)
Star ==
    /\ starRet = NotCalled
    /\ starRet' = star(starArgs)
    /\ UNCHANGED starArgs
    /\ UNCHANGED << polyVars, morphVars, mappingHelper, mapperVars, restVars >>

InitStar == StarInit /\ PolyIdle /\ MorphIdle /\ MappingIdle /\ MapperIdle /\ RestIdle

NextStar == Star

SpecStar == InitStar /\ [][NextStar]_vars

\* ------------------------------------------------------------ factories checked

\* Largest numVertices given to circle.
MaxCircleVertices == 8

\* Radii of the circles, on the dimensionless grid.
CircleRadii == { One, 2 * One, 500000 }

\* Center coordinates supplied to the factories.
Centers == { 0, 3000, 6000 }

\* Vertex lists given to fromVertices: a triangle, a square and a
\* rectangle, whose centroids are (4000, 1000), (3000, 3000), (4500, 3000).
VertexLists ==
    { << 0, 0, 6000, 0, 6000, 3000 >>,
      << 0, 0, 6000, 0, 6000, 6000, 0, 6000 >>,
      << 0, 0, 9000, 0, 9000, 6000, 0, 6000 >> }

FactoryInit == FactoryIdle

\* RoundedPolygon.circle(numVertices, radius, centerX, centerY)
Circle(numVertices, radius, centerX, centerY) ==
    /\ factoryArgs = NoFactoryArgs
    /\ factoryArgs' = [ NoFactoryArgs EXCEPT !.op = "circle", !.numVertices = numVertices,
                          !.radius = radius,
                          !.hasCenterX = TRUE, !.centerX = centerX,
                          !.hasCenterY = TRUE, !.centerY = centerY ]
    /\ factoryRet' = circle(numVertices, radius, centerX, centerY)
    /\ UNCHANGED << firstVars, measuredVars, objVars, cutVars, lmVars, fmVars, revVars >>

\* RoundedPolygon.fromVertices(vertices, rounding, perVertexRounding,
\* centerX, centerY) with the roundings left out and each of centerX and
\* centerY supplied or left out.
FromVertices(vertices, hasCenterX, centerX, hasCenterY, centerY) ==
    /\ factoryArgs = NoFactoryArgs
    /\ hasCenterX \/ centerX = 0
    /\ hasCenterY \/ centerY = 0
    /\ factoryArgs' = [ NoFactoryArgs EXCEPT !.op = "fromVertices", !.vertices = vertices,
                          !.hasCenterX = hasCenterX, !.centerX = centerX,
                          !.hasCenterY = hasCenterY, !.centerY = centerY ]
    /\ factoryRet' = fromVertices(vertices,
                                  DefaultTo(hasCenterX, centerX, MIN_SAFE_INTEGER),
                                  DefaultTo(hasCenterY, centerY, MAX_SAFE_INTEGER))
    /\ UNCHANGED << firstVars, measuredVars, objVars, cutVars, lmVars, fmVars, revVars >>

InitFactory == FactoryInit /\ FirstIdle /\ MeasuredIdle /\ ObjIdle /\ CutIdle /\ LmIdle /\ FmIdle /\ RevIdle

NextFactory ==
    \/ \E numVertices \in 3..MaxCircleVertices : \E radius \in CircleRadii :
         \E centerX \in Centers : \E centerY \in Centers :
            Circle(numVertices, radius, centerX, centerY)
    \/ \E vertices \in VertexLists : \E hasCenterX \in BOOLEAN : \E hasCenterY \in BOOLEAN :
         \E centerX \in Centers : \E centerY \in Centers :
            FromVertices(vertices, hasCenterX, centerX, hasCenterY, centerY)

SpecFactory == InitFactory /\ [][NextFactory]_vars

\* ------------------------------------------------------------ measured polygons checked

\* Largest number of cutAndShift calls in a row.
MaxCuts == 2

\* A 9000 x 6000 rectangle whose only corner has three lines.
ThreeLineCorner ==
    << Corner(Path(<< <<0, 60>>, <<0, 30>>, <<0, 0>>, <<30, 0>> >>), TRUE),
       Edge(Path(<< <<30, 0>>, <<9000, 0>>, <<9000, 6000>>, <<0, 6000>>, <<0, 60>> >>)) >>

\* The polygons measured: the polygons morphed (corners of two cubics), the
\* polygons built by fromVertices (corners of one zero-length cubic) and
\* the rectangle with a corner of three cubics.
MeasuredPolygons ==
    MorphPolygons
    \cup { fromVertices(vertices, MIN_SAFE_INTEGER, MAX_SAFE_INTEGER).features :
              vertices \in VertexLists }
    \cup { ThreeLineCorner }

\* The cutting points: below DistanceEpsilon, inside cubics, at the end of
\* the outline, and (in CutAndShift) the end of the polygon's first cubic.
CuttingPoints == { 0, 50, 250000, 333333, 500000, 999950, One }

MeasuredInit ==
    /\ measuredSource \in MeasuredPolygons
    /\ measuredPolygon = NotMeasured
    /\ cutsDone = << >>

\* MeasuredPolygon.measurePolygon(new LengthMeasurer(), polygon)
MeasurePolygon ==
    /\ measuredPolygon = NotMeasured
    /\ measuredPolygon' = measurePolygon(measuredSource)
    /\ UNCHANGED << measuredSource, cutsDone >>
    /\ UNCHANGED << firstVars, factoryVars, objVars, cutVars, lmVars, fmVars, revVars >>

\* measuredPolygon.cutAndShift(cuttingPoint)
CutAndShift(cuttingPoint) ==
    /\ measuredPolygon # NotMeasured
    /\ ~measuredPolygon.threw
    /\ Len(cutsDone) < MaxCuts
    /\ measuredPolygon' = cutAndShift(measuredPolygon, cuttingPoint)
    /\ cutsDone' = Append(cutsDone, cuttingPoint)
    /\ UNCHANGED measuredSource
    /\ UNCHANGED << firstVars, factoryVars, objVars, cutVars, lmVars, fmVars, revVars >>

InitMeasured == MeasuredInit /\ FirstIdle /\ FactoryIdle /\ ObjIdle /\ CutIdle /\ LmIdle /\ FmIdle /\ RevIdle

NextMeasured ==
    \/ MeasurePolygon
    \/ \E cuttingPoint \in CuttingPoints : CutAndShift(cuttingPoint)
    \/ /\ measuredPolygon.cubics # << >>
       /\ CutAndShift(measuredPolygon.cubics[1].endOutlineProgress)

SpecMeasured == InitMeasured /\ [][NextMeasured]_vars

\* ------------------------------------------------------------ objects checked

\* Largest number of calls made on the built objects.
MaxCalls == 2

\* The polygons built as objects: one whose construction patches a cubic,
\* one whose first feature is split, one with no zero-length cubic, and
\* the polygons of fromVertices.
ObjPolygons ==
    { DriftOutline, ThreeLineCorner,
      Rect(9000, 6000, 30, << "convex", "convex", "convex", "convex" >>) }
    \cup { fromVertices(vertices, MIN_SAFE_INTEGER, MAX_SAFE_INTEGER).features :
              vertices \in VertexLists }

\* The polygon every Morph ends at.
ObjMorphEnd == Rect(6000, 6000, 300, << "convex", "concave", "convex", "concave" >>)

\* The PointTransformers given to transformed: a shift and a scaling.
Transformers ==
    { [offsetX |-> 3000, offsetY |-> 0, num |-> 1, den |-> 1],
      [offsetX |-> 0, offsetY |-> 0, num |-> 2, den |-> 1] }

\* The cutting points given to cutAndShift: one below DistanceEpsilon and
\* two inside the outline.
ObjCuttingPoints == { 0, 250000, 500000 }

\* The features fs with references in place of cubics, the first cubic
\* being object number first.
RECURSIVE WithRefs(_, _)
WithRefs(fs, first) ==
    IF fs = << >> THEN << >>
    ELSE << [Head(fs) EXCEPT !.cubics = [i \in 1..Len(@) |-> first + i - 1]] >>
         \o WithRefs(Tail(fs), first + Len(Head(fs).cubics))

\* The caller has made the cubics and the features of a polygon, a
\* MutableCubic and an array for bounds.
ObjInit ==
    \E fs \in ObjPolygons :
        LET made == NewCubics(EmptyHeap, FlattenCubics(fs))
            mutableCubic == NewCubic(made.heap, emptyCubic(0, 0))
            array == NewBounds(mutableCubic.heap)
        IN  /\ heap = array.heap
            /\ objFeatures = WithRefs(fs, 1)
            /\ objScratch = mutableCubic.ref
            /\ objBounds = array.ref
            /\ objPolygon = NoPolygon
            /\ objMeasured = NotMeasured
            /\ objMorph = NoObjMorph
            /\ objCalls = << >>

\* new RoundedPolygon(features, center)
ObjConstruct ==
    /\ objPolygon = NoPolygon
    /\ LET made == ObjRoundedPolygon(heap, objFeatures, << 0, 0 >>)
       IN  heap' = made.heap /\ objPolygon' = made.obj
    /\ UNCHANGED << objFeatures, objMeasured, objMorph, objScratch, objBounds, objCalls >>
    /\ UNCHANGED << firstVars, factoryVars, measuredVars, cutVars, lmVars, fmVars, revVars >>

\* MeasuredPolygon.measurePolygon(measurer, polygon)
ObjMeasure ==
    /\ objPolygon # NoPolygon
    /\ objMeasured = NotMeasured
    /\ LET made == ObjMeasurePolygon(heap, objPolygon)
       IN  heap' = made.heap /\ objMeasured' = made.obj
    /\ UNCHANGED << objFeatures, objPolygon, objMorph, objScratch, objBounds, objCalls >>
    /\ UNCHANGED << firstVars, factoryVars, measuredVars, cutVars, lmVars, fmVars, revVars >>

\* new Morph(polygon, end)
ObjNewMorph ==
    /\ objMeasured # NotMeasured
    /\ objMorph = NoObjMorph
    /\ LET made == ObjMorph(heap, Deref(heap, objPolygon.features), ObjMorphEnd)
       IN  heap' = made.heap /\ objMorph' = made.obj
    /\ UNCHANGED << objFeatures, objPolygon, objMeasured, objScratch, objBounds, objCalls >>
    /\ UNCHANGED << firstVars, factoryVars, measuredVars, cutVars, lmVars, fmVars, revVars >>

\* The objects are built and another call may be made on them.
ObjBuilt == objMorph # NoObjMorph /\ Len(objCalls) < MaxCalls

\* One call, named op, that leaves the heap hp.
ObjCall(op, hp) ==
    /\ heap' = hp
    /\ objCalls' = Append(objCalls, op)
    /\ UNCHANGED << objFeatures, objPolygon, objMeasured, objMorph, objScratch, objBounds >>
    /\ UNCHANGED << firstVars, factoryVars, measuredVars, cutVars, lmVars, fmVars, revVars >>

\* polygon.calculateBounds(bounds)
ObjCallCalculateBounds ==
    /\ ObjBuilt
    /\ ObjCall("calculateBounds", ObjCalculateBounds(heap, objPolygon, objBounds))

\* polygon.transformed(f)
ObjCallTransformed(f) ==
    /\ ObjBuilt
    /\ ObjCall("transformed", ObjTransformed(heap, objPolygon, f).heap)

\* polygon.normalized()
ObjCallNormalized ==
    /\ ObjBuilt
    /\ ObjCall("normalized", ObjNormalized(heap, objPolygon).heap)

\* measuredPolygon.cutAndShift(cuttingPoint)
ObjCallCutAndShift(cuttingPoint) ==
    /\ ObjBuilt
    /\ ~objMeasured.threw
    /\ ObjCall("cutAndShift", ObjCutAndShift(heap, objMeasured, cuttingPoint).heap)

\* morph.asCubics(progress)
ObjCallAsCubics(progress) ==
    /\ ObjBuilt
    /\ ~objMorph.threw
    /\ ObjCall("asCubics", ObjAsCubics(heap, objMorph.morphMatch, progress).heap)

\* morph.forEachCubic(progress, mutableCubic, callback)
ObjCallForEachCubic(progress) ==
    /\ ObjBuilt
    /\ ~objMorph.threw
    /\ ObjCall("forEachCubic",
               ObjForEachCubic(heap, objMorph.morphMatch, progress, objScratch, 1).heap)

InitObjects == ObjInit /\ FirstIdle /\ FactoryIdle /\ MeasuredIdle /\ CutIdle /\ LmIdle /\ FmIdle /\ RevIdle

NextObjects ==
    \/ ObjConstruct
    \/ ObjMeasure
    \/ ObjNewMorph
    \/ ObjCallCalculateBounds
    \/ \E f \in Transformers : ObjCallTransformed(f)
    \/ ObjCallNormalized
    \/ \E cuttingPoint \in ObjCuttingPoints : ObjCallCutAndShift(cuttingPoint)
    \/ \E progress \in Progresses : ObjCallAsCubics(progress)
    \/ \E progress \in Progresses : ObjCallForEachCubic(progress)

SpecObjects == InitObjects /\ [][NextObjects]_vars

\* ------------------------------------------------------------ cuts checked

\* The polygons cut: a triangle with sides 0.4, 0.3 and 0.5, a square, a
\* rectangle, and the polygons given to fromVertices further up.
CutVertexLists ==
    { << 0, 0, 8000, 0, 8000, 6000 >>,
      << 0, 0, 6000, 0, 6000, 6000, 0, 6000 >>,
      << 0, 0, 9000, 0, 9000, 6000, 0, 6000 >> }
    \cup VertexLists

\* The roundings: radius 0, a quarter, a half and three quarters of the
\* square's side and ten times that side, each with no, half and full
\* smoothing.  No cut they lead to lies halfway between two points of the
\* coordinate grid.
CutRadii == { 0, 1500, 3000, 4500, 60000 }

CutSmoothings == { 0, Half, One }

CutRoundings == { CornerRounding(r, s) : r \in CutRadii, s \in CutSmoothings }

CutInit == CutIdle

\* RoundedPolygon.fromVertices(vertices, rounding, perVertexRounding)
FromVerticesCuts(vertices, rounding, perVertexRounding) ==
    /\ cutRet = NoCuts
    /\ cutArgs' = [vertices |-> vertices, rounding |-> rounding,
                   perVertexRounding |-> perVertexRounding]
    /\ cutRet' = fromVerticesCuts(vertices, rounding, perVertexRounding)
    /\ UNCHANGED << firstVars, factoryVars, measuredVars, objVars, lmVars, fmVars, revVars >>

InitCuts == CutInit /\ FirstIdle /\ FactoryIdle /\ MeasuredIdle /\ ObjIdle /\ LmIdle /\ FmIdle /\ RevIdle

\* One rounding for every vertex, or a list with two roundings taking
\* turns.
NextCuts ==
    \/ \E vertices \in CutVertexLists : \E rounding \in CutRoundings :
          FromVerticesCuts(vertices, rounding, NullList)
    \/ \E vertices \in CutVertexLists : \E r1 \in CutRoundings : \E r2 \in CutRoundings :
          FromVerticesCuts(vertices, Unrounded,
                           [i \in 1..(Len(vertices) \div 2) |-> IF i % 2 = 1 THEN r1 ELSE r2])

SpecCuts == InitCuts /\ [][NextCuts]_vars

\* ------------------------------------------------------------ measurers checked

\* Number of findCubicCutPoint calls on one cubic.
MaxCutPoints == 2

\* The measures given to findCubicCutPoint are k / MaxMeasureSteps of
\* measureCubic(c).
MaxMeasureSteps == 6

\* The cubics measured: lines along an axis and across, a quarter of a
\* circle of radius 0.3 and an S-shaped curve.
LmCubics ==
    { Line(<<0, 0>>, <<6000, 0>>),
      Line(<<0, 3000>>, <<0, 0>>),
      Line(<<0, 0>>, <<8000, 6000>>),
      << 6000, 0, 6000, 3314, 3314, 6000, 0, 6000 >>,
      << 0, 0, 6000, 0, 0, 6000, 6000, 6000 >> }

LmInit == lmCubic \in LmCubics /\ lmSize = Unset /\ lmCuts = << >>

\* measurer.measureCubic(c)
MeasureCubic ==
    /\ lmSize = Unset
    /\ lmSize' = measureCubic(lmCubic)
    /\ UNCHANGED << lmCubic, lmCuts >>
    /\ UNCHANGED << firstVars, factoryVars, measuredVars, objVars, cutVars, fmVars, revVars >>

\* measurer.findCubicCutPoint(c, m)
FindCubicCutPoint(m) ==
    /\ lmSize # Unset
    /\ Len(lmCuts) < MaxCutPoints
    /\ lmCuts' = Append(lmCuts, [m |-> m, t |-> findCubicCutPoint(lmCubic, m)])
    /\ UNCHANGED << lmCubic, lmSize >>
    /\ UNCHANGED << firstVars, factoryVars, measuredVars, objVars, cutVars, fmVars, revVars >>

InitMeasurer == LmInit /\ FirstIdle /\ FactoryIdle /\ MeasuredIdle /\ ObjIdle /\ CutIdle /\ FmIdle /\ RevIdle

NextMeasurer ==
    \/ MeasureCubic
    \/ \E k \in 0..MaxMeasureSteps : FindCubicCutPoint((k * lmSize) \div MaxMeasureSteps)

SpecMeasurer == InitMeasurer /\ [][NextMeasurer]_vars

\* ------------------------------------------------------------ feature mappers checked

\* A corner whose representative point is p.
CornerAt(p, cnvx) == Corner(<< Line(p, p) >>, cnvx)

\* The features of a measured polygon: feature i of fs at progress[i].
Progressable(progress, fs) ==
    [i \in 1..Len(fs) |-> ProgressableFeature(progress[i], fs[i], i)]

\* The feature lists of the first polygon: no feature, an edge, one convex
\* corner, one concave corner, two convex corners, an edge and a corner.
FmFeatureLists1 ==
    { << >>,
      Progressable(<< 100000 >>, << Edge(<< Line(<<0, 0>>, <<6000, 0>>) >>) >>),
      Progressable(<< 200000 >>, << CornerAt(<<0, 0>>, TRUE) >>),
      Progressable(<< 200000 >>, << CornerAt(<<0, 0>>, FALSE) >>),
      Progressable(<< 200000, 700000 >>,
                   << CornerAt(<<0, 0>>, TRUE), CornerAt(<<6000, 6000>>, TRUE) >>),
      Progressable(<< 100000, 700000 >>,
                   << Edge(<< Line(<<0, 0>>, <<6000, 0>>) >>), CornerAt(<<6000, 0>>, TRUE) >>) }

\* The feature lists of the second polygon: no feature, one to three
\* convex corners, concave ones, an edge.
FmFeatureLists2 ==
    { << >>,
      Progressable(<< 300000 >>, << CornerAt(<<600, 0>>, TRUE) >>),
      Progressable(<< 300000 >>, << CornerAt(<<600, 0>>, FALSE) >>),
      Progressable(<< 300000, 600000 >>,
                   << CornerAt(<<600, 0>>, TRUE), CornerAt(<<6000, 5000>>, TRUE) >>),
      Progressable(<< 100000, 400000, 800000 >>,
                   << CornerAt(<<600, 0>>, TRUE), CornerAt(<<6000, 600>>, TRUE),
                      CornerAt(<<0, 5000>>, TRUE) >>),
      Progressable(<< 300000, 600000 >>,
                   << CornerAt(<<600, 0>>, FALSE), CornerAt(<<6000, 5000>>, TRUE) >>),
      Progressable(<< 500000, 900000 >>,
                   << Edge(<< Line(<<0, 0>>, <<0, 6000>>) >>), CornerAt(<<0, 6000>>, FALSE) >>) }

\* The x given to map.
FmProbes == { 0, 125000, 250000, 500000, 750000, 999999 }

FmInit ==
    /\ fmFeatures1 \in FmFeatureLists1
    /\ fmFeatures2 \in FmFeatureLists2
    /\ fmHelper = NewHelper
    /\ fmX = Unset
    /\ fmMapped = Unset

\* featureMapper(features1, features2)
FeatureMapper ==
    /\ fmHelper = NewHelper
    /\ fmHelper' = featureMapper(fmFeatures1, fmFeatures2)
    /\ UNCHANGED << fmFeatures1, fmFeatures2, fmX, fmMapped >>
    /\ UNCHANGED << firstVars, factoryVars, measuredVars, objVars, cutVars, lmVars, revVars >>

\* doubleMapper.map(x) on the DoubleMapper featureMapper returned
MapperMap(x) ==
    /\ fmHelper # NewHelper
    /\ ~fmHelper.threw
    /\ fmX = Unset
    /\ fmX' = x
    /\ fmMapped' = map(DoubleMapper(fmHelper.mapping), x)
    /\ UNCHANGED << fmFeatures1, fmFeatures2, fmHelper >>
    /\ UNCHANGED << firstVars, factoryVars, measuredVars, objVars, cutVars, lmVars, revVars >>

InitFeatureMapper ==
    FmInit /\ FirstIdle /\ FactoryIdle /\ MeasuredIdle /\ ObjIdle /\ CutIdle /\ LmIdle
           /\ RevIdle

NextFeatureMapper ==
    \/ FeatureMapper
    \/ \E x \in FmProbes : MapperMap(x)

SpecFeatureMapper == InitFeatureMapper /\ [][NextFeatureMapper]_vars

\* ------------------------------------------------------------ features checked

\* Largest number of reversed() calls in a row.
MaxReversals == 2

\* The features reversed: the edges and corners given to the RoundedPolygon
\* constructor (one cubic, or three cubics, continuous or not), the
\* features of the polygons morphed (one or two lines each) and a corner of
\* three lines.
ReversedFeatures ==
    PolyFeatures
    \cup UNION { { fs[i] : i \in 1..Len(fs) } : fs \in MorphPolygons }
    \cup { ThreeLineCorner[1], ThreeLineCorner[2] }

RevInit == revFeature \in ReversedFeatures /\ revResults = << >>

\* The feature the next reversed() call is made on.
RevReceiver ==
    IF revResults = << >> THEN revFeature ELSE revResults[Len(revResults)]

\* feature.reversed()
Reversed ==
    /\ Len(revResults) < MaxReversals
    /\ revResults' = Append(revResults, reversed(RevReceiver))
    /\ UNCHANGED revFeature
    /\ UNCHANGED << firstVars, factoryVars, measuredVars, objVars, cutVars, lmVars, fmVars >>

InitFeature ==
    RevInit /\ FirstIdle /\ FactoryIdle /\ MeasuredIdle /\ ObjIdle /\ CutIdle /\ LmIdle /\ FmIdle

NextFeature == Reversed

SpecFeature == InitFeature /\ [][NextFeature]_vars

\* ------------------------------------------------------------ claims

HasZeroLength(fs) ==
    \E i \in 1..Len(FlattenCubics(fs)) : zeroLength(FlattenCubics(fs)[i])

\* C1 (Closure): in every constructed RoundedPolygon the last element of
\* cubics ends exactly (componentwise) where the first element starts.
C1_Closure ==
    cubics # << >> =>
        /\ anchor1X(cubics[Len(cubics)]) = anchor0X(cubics[1])
        /\ anchor1Y(cubics[Len(cubics)]) = anchor0Y(cubics[1])

\* A constructed polygon whose first corner of three cubics was split, with
\* a zero-length cubic among its features and several cubics retained.
C1_Witness ==
    /\ cubics # << >>
    /\ Len(cubics) >= 3
    /\ Len(features) >= 1
    /\ Len(features[1].cubics) = 3
    /\ HasZeroLength(features)

\* C2 as stated: the list asCubics returns has |morphMatch| + 1 cubics.
C2_LengthPlusOne ==
    asCubicsRet # NoCubics => Len(asCubicsRet.ret) = Len(morph.morphMatch) + 1

\* C2 (Same length), amended: for every Morph and every progress the list
\* asCubics returns has exactly |morphMatch| cubics, the last of them being
\* the seam cubic.
C2_SameLength ==
    asCubicsRet # NoCubics => Len(asCubicsRet.ret) = Len(morph.morphMatch)

\* asCubics has returned, at a progress strictly between 0 and 1, for a
\* Morph of several matched pairs.
C2_Witness ==
    /\ asCubicsRet # NoCubics
    /\ asCubicsRet.progress > 0
    /\ asCubicsRet.progress < One
    /\ Len(morph.morphMatch) >= 8

\* The list cs has no gap: each cubic starts within DistanceEpsilon (in x
\* and in y) of where the one before it ends.
Continuous(cs) ==
    \A i \in 1..(Len(cs) - 1) :
        /\ Abs(anchor1X(cs[i]) - anchor0X(cs[i + 1])) < DistanceEpsilonXY
        /\ Abs(anchor1Y(cs[i]) - anchor0Y(cs[i + 1])) < DistanceEpsilonXY

\* C3 (Continuity of the morph output): consecutive cubics of every list
\* asCubics returns share their endpoint within DistanceEpsilon, also when
\* measurePolygon dropped cubics of small outline progress.
C3_Continuity ==
    asCubicsRet # NoCubics => Continuous(asCubicsRet.ret)

\* ia/ib of the pairs of mm, read in order, go through 1..n without a step
\* back and without skipping a cubic.
InOrder(ixs, n) ==
    /\ Len(ixs) > 0
    /\ ixs[1] = 1
    /\ ixs[Len(ixs)] = n
    /\ \A i \in 1..(Len(ixs) - 1) : ixs[i + 1] \in { ixs[i], ixs[i] + 1 }

\* C4 (Morph endpoints): when the alignment loop of a Morph stops, no cubic
\* of either measured outline is left unmatched, and the a (b) components
\* of morphMatch are the cubics of the start (cut-and-shifted end) outline,
\* whole or in consecutive pieces, in order.
C4_BothConsumed ==
    Built =>
        /\ morph.b1 = Undefined
        /\ morph.b2 = Undefined
        /\ InOrder([i \in 1..Len(morph.morphMatch) |-> morph.morphMatch[i].ia],
                   Len(morph.bs1.cubics))
        /\ InOrder([i \in 1..Len(morph.morphMatch) |-> morph.morphMatch[i].ib],
                   Len(morph.bs2.cubics))

\* C5 (Seam closure of the morph output): the last cubic asCubics returns
\* has the anchor0, control0 and control1 of the interpolation of the last
\* matched pair, and its anchor1 is exactly the anchor0 of the first cubic
\* returned.
C5_SeamClosure ==
    (asCubicsRet # NoCubics /\ Len(morph.morphMatch) > 0) =>
        LET ret == asCubicsRet.ret
            lastPair == InterpolatedCubic(morph.morphMatch[Len(morph.morphMatch)],
                                          asCubicsRet.progress)
        IN  /\ Len(ret) > 0
            /\ SubSeq(ret[Len(ret)], 1, 6) = SubSeq(lastPair, 1, 6)
            /\ anchor1X(ret[Len(ret)]) = anchor0X(ret[1])
            /\ anchor1Y(ret[Len(ret)]) = anchor0Y(ret[1])

\* asCubics has returned several cubics for a Morph whose last matched
\* pair does not end where its first one starts, so that the seam cubic
\* differs from the interpolation of the last pair.
C5_Witness ==
    /\ asCubicsRet # NoCubics
    /\ Len(asCubicsRet.ret) >= 8
    /\ asCubicsRet.ret[Len(asCubicsRet.ret)]
         # InterpolatedCubic(morph.morphMatch[Len(morph.morphMatch)], asCubicsRet.progress)

\* C6 (forEachCubic is the same pipeline as asCubics): at the same
\* progress, the cubics forEachCubic hands to its callback are, element by
\* element and in all 8 components, the list asCubics returns.
C6_SamePipeline ==
    ( /\ asCubicsRet # NoCubics
      /\ callbackCubics # NoCubics
      /\ asCubicsRet.progress = callbackCubics.progress )
    => callbackCubics.ret = asCubicsRet.ret

\* The corners of the feature list fs.
Corners(fs) == { fs[i] : i \in { j \in 1..Len(fs) : isCorner(fs[j]) } }

\* C9 (Convexity preservation): every anchor pair featureMapper accepted,
\* in the greedy case and in the single-pair case, comes from two Corner
\* features with the same convex flag, and no pair of corners with
\* differing convex flags is among the candidates.
C9_ConvexityPreserved ==
    /\ \A i \in 1..Len(morph.pairs) :
          /\ isCorner(morph.pairs[i][1].feature)
          /\ isCorner(morph.pairs[i][2].feature)
          /\ morph.pairs[i][1].feature.convex = morph.pairs[i][2].feature.convex
    /\ \A i \in 1..Len(morph.candidates) :
          /\ isCorner(morph.candidates[i].f1.feature)
          /\ isCorner(morph.candidates[i].f2.feature)
          /\ morph.candidates[i].f1.feature.convex = morph.candidates[i].f2.feature.convex

\* featureMapper accepted several pairs for two polygons that have corners
\* of differing convexity.
C9_Witness ==
    /\ Len(morph.pairs) >= 2
    /\ \E f1 \in Corners(startPolygon) : \E f2 \in Corners(endPolygon) :
          f1.convex # f2.convex

\* The a values and the b values of the helper's mapping, in list order.
MappingA == [i \in 1..Len(mappingHelper.mapping) |-> mappingHelper.mapping[i].a]

MappingB == [i \in 1..Len(mappingHelper.mapping) |-> mappingHelper.mapping[i].b]

\* C7 (Monotone matching): after any sequence of addMapping calls the
\* anchors, in the order they are stored in `mapping`, are cyclically
\* order-preserving: the a values wind around [0, 1) exactly once in
\* increasing direction and so do the b values.
C7_Monotone ==
    Len(mappingHelper.mapping) >= 2 =>
        /\ CyclicallyIncreasing(MappingA)
        /\ CyclicallyIncreasing(MappingB)

\* Every two neighbouring anchors of dm are at least 0.001 apart, in a and
\* in b.
SegmentsWide(dm) ==
    \A i \in 1..Len(dm.sourceValues) :
        LET j == (i % Len(dm.sourceValues)) + 1
        IN  /\ positiveModulo(dm.sourceValues[j] - dm.sourceValues[i]) >= SegmentSizeMin
            /\ positiveModulo(dm.targetValues[j] - dm.targetValues[i]) >= SegmentSizeMin

\* C8 as stated: for every mapper with cyclically order-preserving anchors,
\* also anchors as close as DistanceEpsilon, mapBack(map(x)) is x on the
\* circle.
C8_RoundTripAll ==
    mappedBack # Unset => positiveModulo(mappedBack - xIn) = 0

\* C8 (Bijection round trip), amended: for every mapper whose anchors are
\* cyclically order-preserving and whose neighbouring anchors are at least
\* 0.001 apart in a and in b, mapBack(map(x)) is x on the circle.
C8_RoundTrip ==
    (mappedBack # Unset /\ SegmentsWide(mapper)) => positiveModulo(mappedBack - xIn) = 0

\* A round trip through a mapper of three anchors, all segments wide, for
\* an x that is no anchor and that map moves.
C8_Witness ==
    /\ mappedBack # Unset
    /\ SegmentsWide(mapper)
    /\ Len(mapper.sourceValues) = 3
    /\ \A i \in 1..3 : mapper.sourceValues[i] # xIn
    /\ mapped # xIn
    /\ mappedBack = xIn

\* C10 (star per-vertex rounding): when innerRounding is supplied and
\* perVertexRounding is not, star builds the corners with roundings that
\* alternate: every outer vertex (even index) uses rounding, every inner
\* vertex (odd index) uses innerRounding.
C10_Alternates ==
    ( /\ starRet # NotCalled
      /\ starArgs.innerRounding # NullRounding
      /\ starArgs.perVertexRounding = NullList )
    => /\ ~starRet.threw
       /\ Len(starRet.vtxRounding) = 2 * starArgs.numVerticesPerRadius
       /\ \A j \in 1..Len(starRet.vtxRounding) :
             starRet.vtxRounding[j] = IF j % 2 = 1 THEN starArgs.rounding
                                      ELSE starArgs.innerRounding

\* C11 (circle): circle(n, radius, cx, cy) builds an n-gon whose vertex
\* radius is radius / cos(PI / n) and gives every corner a CornerRounding
\* whose radius is the requested radius, not the enlarged one.
C11_CircleRounding ==
    factoryArgs.op = "circle" =>
        /\ factoryRet.numVertices = factoryArgs.numVertices
        /\ factoryRet.radius = Div(factoryArgs.radius, CosPiOver[factoryArgs.numVertices])
        /\ \A j \in 1..factoryArgs.numVertices :
              factoryRet.vtxRounding[j].radius = factoryArgs.radius

\* C12 (fromVertices center): the center of the polygon is the supplied
\* (centerX, centerY) when both are supplied and the centroid of the
\* vertices otherwise, for every combination of supplied and omitted
\* centerX and centerY.
C12_Center ==
    factoryArgs.op = "fromVertices" =>
        factoryRet.center =
            IF factoryArgs.hasCenterX /\ factoryArgs.hasCenterY
            THEN << factoryArgs.centerX, factoryArgs.centerY >>
            ELSE calculateCenter(factoryArgs.vertices)

\* C13 (zero-length elision): no element of a RoundedPolygon's cubics is
\* zero-length, the cubics whose anchor1 was patched and the closing cubic
\* included.
C13_NoZeroLength ==
    cubics # << >> => \A i \in 1..Len(cubics) : ~zeroLength(cubics[i])

\* The measured cubics cover [0, 1] without gap, overlap or empty range.
ProgressInvariant(mcs) ==
    /\ Len(mcs) > 0
    /\ mcs[1].startOutlineProgress = 0
    /\ mcs[Len(mcs)].endOutlineProgress = One
    /\ \A i \in 1..Len(mcs) :
          /\ 0 <= mcs[i].startOutlineProgress
          /\ mcs[i].startOutlineProgress < mcs[i].endOutlineProgress
          /\ mcs[i].endOutlineProgress <= One
    /\ \A i \in 1..(Len(mcs) - 1) :
          mcs[i + 1].startOutlineProgress = mcs[i].endOutlineProgress

\* C14 (MeasuredPolygon progress invariant): in every MeasuredPolygon,
\* produced by measurePolygon or by any sequence of cutAndShift calls, the
\* measured cubics satisfy 0 <= start <= end <= 1, the first starts at 0,
\* the last ends at 1, each starts where its predecessor ends and none has
\* an empty progress range.
C14_Progress ==
    (measuredPolygon # NotMeasured /\ ~measuredPolygon.threw)
        => ProgressInvariant(measuredPolygon.cubics)

\* A MeasuredPolygon reached by two cutAndShift calls, the last one at a
\* cutting point of at least DistanceEpsilon, of a polygon some of whose
\* cubics were dropped for their small progress range.
C14_Witness ==
    /\ measuredPolygon # NotMeasured
    /\ ~measuredPolygon.threw
    /\ Len(cutsDone) = 2
    /\ cutsDone[2] >= DistanceEpsilon
    /\ Len(measuredPolygon.cubics) < Len(FlattenCubics(measuredSource))
    /\ \E c \in { measureCubic(FlattenCubics(measuredSource)[i]) :
                     i \in 1..Len(FlattenCubics(measuredSource)) } : c > 0 /\ c < 5

\* The outline progress of the ends of the flattened cubics of fs, as
\* measurePolygon computes it: 0 first, One last.
OutlineProgressOf(fs) ==
    LET measures == Measures(FlattenCubics(fs), 0)
    IN  [i \in 1..Len(measures) |-> Div(measures[i], measures[Len(measures)])]

\* For every Corner of fs, in outline order, the corner and the midpoint
\* of the outline progress range of its middle cubic (cubic number
\* floor(count / 2) of the corner, counting from 0).
RECURSIVE CornerMidpoints(_, _, _, _)
CornerMidpoints(fs, featureIndex, count, outlineProgress) ==
    IF featureIndex > Len(fs) THEN << >>
    ELSE LET feature == fs[featureIndex]
             len == Len(feature.cubics)
             ix == count + (len \div 2) + 1
         IN  ( IF isCorner(feature) /\ len > 0
               THEN << [ feature  |-> feature,
                         progress |-> positiveModulo(
                             (outlineProgress[ix] + outlineProgress[ix + 1]) \div 2) ] >>
               ELSE << >> )
             \o CornerMidpoints(fs, featureIndex + 1, count + len, outlineProgress)

\* C18 (measurePolygon feature extraction): the features of the
\* MeasuredPolygon that measurePolygon returns hold exactly one
\* ProgressableFeature for every Corner of the polygon, in outline order,
\* and none for an Edge, whatever the number of cubics of the corner; its
\* progress is the midpoint of the outline progress range of the corner's
\* middle cubic, modulo 1.
C18_CornerFeatures ==
    (measuredPolygon # NotMeasured /\ ~measuredPolygon.threw /\ cutsDone = << >>)
        => [i \in 1..Len(measuredPolygon.features) |->
               [ feature  |-> measuredPolygon.features[i].feature,
                 progress |-> measuredPolygon.features[i].progress ]]
           = CornerMidpoints(measuredSource, 1, 0, OutlineProgressOf(measuredSource))

\* x lies on the arc that goes from `from` to `to` in increasing direction.
OnArc(x, from, to) == positiveModulo(x - from) <= positiveModulo(to - from)

\* Some cyclic segment between two consecutive values of vals holds x.
SomeSegmentHolds(vals, x) ==
    \E i \in 1..Len(vals) : OnArc(x, vals[i], vals[(i % Len(vals)) + 1])

\* The call with argument x over the anchors vals returned ret: it raised
\* exactly when no segment holds x, and returned a value in [0, 1) if not.
FailFast(vals, x, ret) ==
    /\ (ret = NoSegment) <=> ~SomeSegmentHolds(vals, x)
    /\ ret # NoSegment => (0 <= ret /\ ret < One)

\* C15 (DoubleMapper fail-fast): map(x) and mapBack(x) raise exactly when
\* no cyclic segment between consecutive anchors holds x, and return no
\* value then; when some segment holds x they return a value in [0, 1).
C15_FailFast ==
    /\ xIn # Unset => FailFast(mapper.sourceValues, xIn, mapped)
    /\ mappedBack # Unset => FailFast(mapper.targetValues, mapped, mappedBack)
    /\ yIn # Unset => FailFast(mapper.targetValues, yIn, yBack)

\* mapBack raised for a mapper that has anchors.
C15_Witness ==
    /\ Len(mapper.sourceValues) >= 1
    /\ yIn # Unset
    /\ yBack = NoSegment

\* The cubics of the features are the objects the caller made; every other
\* cubic of the polygon was made by its constructor.
FeatureRefs ==
    UNION { { objFeatures[i].cubics[j] : j \in 1..Len(objFeatures[i].cubics) } :
            i \in 1..Len(objFeatures) }

\* C16 (immutability after construction): once built, a RoundedPolygon, a
\* MeasuredPolygon and a Morph keep the cubics they hold; asCubics,
\* forEachCubic, cutAndShift, transformed, normalized and calculateBounds
\* leave every Cubic and MeasuredCubic that exists as it is, except that
\* forEachCubic overwrites the caller's MutableCubic; and building a
\* polygon's cubics leaves every cubic held in its features as it is.
C16_Immutable ==
    [][ /\ \A r \in 1..Len(heap.cubics) :
              r # objScratch => heap'.cubics[r] = heap.cubics[r]
        /\ \A r \in 1..Len(heap.measured) : heap'.measured[r] = heap.measured[r]
        /\ objFeatures' = objFeatures
        /\ objPolygon # NoPolygon => objPolygon' = objPolygon
        /\ objMeasured # NotMeasured => objMeasured' = objMeasured
        /\ objMorph # NoObjMorph => objMorph' = objMorph
        /\ heap'.cubics[objScratch] # heap.cubics[objScratch]
              => /\ objCalls' # objCalls
                 /\ objCalls'[Len(objCalls')] = "forEachCubic"
      ]_vars

\* The constructor made a cubic other than the closing one (the polygon
\* holds a cubic, not its last, that the caller did not make) and derived the cubics that
\* buildCubicList gives for the features' values; then cutAndShift made
\* new MeasuredCubics and forEachCubic overwrote the caller's MutableCubic.
C16_Witness ==
    /\ objCalls = << "cutAndShift", "forEachCubic" >>
    /\ \E i \in 1..(Len(objPolygon.cubics) - 1) : objPolygon.cubics[i] \notin FeatureRefs
    /\ DerefCubics(heap, objPolygon.cubics)
          = buildCubicList(Deref(heap, objFeatures), << 0, 0 >>)
    /\ Len(heap.measured) > Len(objMeasured.cubics)
    /\ heap.cubics[objScratch] # emptyCubic(0, 0)

\* Pass k of the loop left i1 where it was: pair k + 1 is cut from the same
\* cubic of bs1 as pair k.
Stays1(k) == morph.morphMatch[k + 1].ia = morph.morphMatch[k].ia

Stays2(k) == morph.morphMatch[k + 1].ib = morph.morphMatch[k].ib

\* C17 (termination of Morph construction): the loop of Morph.match ends;
\* every pass advances i1 or i2 (a cubic is cut only when the cubic of the
\* other outline is consumed, and the last pass consumes the last cubic of
\* an outline), so there are at most |bs1.cubics| + |bs2.cubics| passes
\* and as many pairs.
C17_Terminates ==
    Built =>
        /\ Len(morph.morphMatch) <= Len(morph.bs1.cubics) + Len(morph.bs2.cubics)
        /\ \A k \in 1..(Len(morph.morphMatch) - 1) : ~(Stays1(k) /\ Stays2(k))
        /\ morph.b1 = Undefined \/ morph.b2 = Undefined

\* A Morph whose loop cut cubics of both outlines and so made more pairs
\* than either outline has cubics.
C17_Witness ==
    /\ Built
    /\ \E k \in 1..(Len(morph.morphMatch) - 1) : Stays1(k)
    /\ \E k \in 1..(Len(morph.morphMatch) - 1) : Stays2(k)
    /\ Len(morph.morphMatch) > Len(morph.bs1.cubics)
    /\ Len(morph.morphMatch) > Len(morph.bs2.cubics)

\* C19 (proximity rejection): after any sequence of addMapping calls no two
\* accepted anchors have a values closer than DistanceEpsilon on the
\* circle, and no two have b values closer than that; addMapping rejects a
\* candidate that is that close to any accepted anchor.
C19_Proximity ==
    \A i \in 1..Len(mappingHelper.mapping) : \A j \in 1..Len(mappingHelper.mapping) :
        i # j => /\ progressDistance(MappingA[i], MappingA[j]) >= DistanceEpsilon
                 /\ progressDistance(MappingB[i], MappingB[j]) >= DistanceEpsilon

\* Side ix of the polygon cut, from corner ix to the next corner: its
\* size, what the two corners' flanking curves take of it, what the two
\* corners are allowed of it and what their round cuts would take.
SideOf(ix) ==
    LET n == Len(cutRet.roundedCorners)
        next == (ix % n) + 1
    IN  [ size        |-> SideSize(cutArgs.vertices, ix),
          consumed    |-> << cutRet.cuts[ix][2], cutRet.cuts[next][1] >>,
          allowed     |-> << cutRet.allowedCuts[ix][2], cutRet.allowedCuts[next][1] >>,
          expected    |-> << cutRet.roundedCorners[ix].expectedRoundCut,
                             cutRet.roundedCorners[next].expectedRoundCut >>,
          adjust      |-> cutRet.cutAdjusts[ix] ]

\* C20 (side budget): on every side of a polygon built by fromVertices the
\* lengths taken by the flanking curves of its two corners add up to at
\* most the side's size; when the two expected round cuts alone exceed the
\* size, the two allowed cuts are the expected round cuts scaled by one
\* ratio, with nothing for smoothing, and add up to exactly the size (half
\* the size each for equal corners).
C20_SideBudget ==
    \A ix \in 1..Len(cutRet.roundedCorners) :
        LET s == SideOf(ix)
        IN  /\ s.consumed[1] + s.consumed[2] <= s.size
            /\ s.expected[1] + s.expected[2] > s.size =>
                  /\ s.adjust.b = 0
                  /\ s.allowed[1] = Mul(s.adjust.a, s.expected[1])
                  /\ s.allowed[2] = Mul(s.adjust.a, s.expected[2])
                  /\ s.allowed[1] + s.allowed[2] = s.size
                  /\ s.expected[1] = s.expected[2] => 2 * s.allowed[1] = s.size

\* A polygon with a side whose two corners differ and expect more round cut
\* than the side has, so that their cuts are scaled and take the whole
\* side, and with a side that has room for the round cuts and for a part
\* of the smoothing only.
C20_Witness ==
    /\ \E ix \in 1..Len(cutRet.roundedCorners) :
          LET s == SideOf(ix)
          IN  /\ s.expected[1] + s.expected[2] > s.size
              /\ s.expected[1] # s.expected[2]
              /\ s.consumed[1] > 0
              /\ s.consumed[1] + s.consumed[2] = s.size
    /\ \E ix \in 1..Len(cutRet.roundedCorners) :
          LET s == SideOf(ix)
          IN  /\ s.adjust.a = One
              /\ s.adjust.b > 0
              /\ s.adjust.b < One
              /\ s.consumed[1] + s.consumed[2] > s.expected[1] + s.expected[2]

\* The length of the chord of c from parameter t0 to parameter t1.
Chord(c, t0, t1) ==
    LET p == pointOnCurve(c, t0)
        q == pointOnCurve(c, t1)
    IN  distance(q[1] - p[1], q[2] - p[2])

\* C21 (measureCubic): measureCubic(c) is the sum of the lengths of the
\* three chords of c between t = 0, 1/3, 2/3 and 1; for a straight line it
\* is the distance between its two ends.
C21_ThreeChords ==
    lmSize # Unset =>
        /\ lmSize = Chord(lmCubic, 0, MulDiv(1, One, segments))
                     + Chord(lmCubic, MulDiv(1, One, segments), MulDiv(2, One, segments))
                     + Chord(lmCubic, MulDiv(2, One, segments), One)
        /\ lmCubic = straightLine(anchor0X(lmCubic), anchor0Y(lmCubic),
                                  anchor1X(lmCubic), anchor1Y(lmCubic))
             => lmSize = distance(anchor1X(lmCubic) - anchor0X(lmCubic),
                                  anchor1Y(lmCubic) - anchor0Y(lmCubic))

\* C22 (findCubicCutPoint): for measures 0 <= m <= m' <= measureCubic(c)
\* the parameters returned are in [0, 1] and in the same order, the
\* parameter for measure 0 is 0 and the parameter for measureCubic(c) is 1.
C22_MonotoneOnto ==
    /\ \A i \in 1..Len(lmCuts) :
          /\ lmCuts[i].t >= 0
          /\ lmCuts[i].t <= One
          /\ lmCuts[i].m = 0 => lmCuts[i].t = 0
          /\ lmCuts[i].m = lmSize => lmCuts[i].t = One
    /\ \A i \in 1..Len(lmCuts) : \A j \in 1..Len(lmCuts) :
          lmCuts[i].m <= lmCuts[j].m => lmCuts[i].t <= lmCuts[j].t

\* (p - cuttingPoint) mod 1 for the progress where a cubic starts, in [0, 1),
\* and for the progress where it ends, in (0, 1].
ShiftedStart(p, cuttingPoint) == positiveModulo(p - cuttingPoint)
ShiftedEnd(p, cuttingPoint) ==
    IF positiveModulo(p - cuttingPoint) = 0 THEN One
    ELSE positiveModulo(p - cuttingPoint)

\* The pieces C23 lists for a cut inside cubic k, each with its boundary
\* progresses moved by cuttingPoint: the back half of k, the cubics
\* k+1..last, the cubics first..k-1, the front half of k.
RotatedPieces(mp, cuttingPoint) ==
    LET k == TargetIndex(mp.cubics, cuttingPoint, 1)
        n == Len(mp.cubics)
        cut == cutAtProgress(mp.cubics[k], cuttingPoint)
        Shifted(mc) ==
            [ cubic |-> mc.cubic,
              startOutlineProgress |-> ShiftedStart(mc.startOutlineProgress, cuttingPoint),
              endOutlineProgress |-> ShiftedEnd(mc.endOutlineProgress, cuttingPoint) ]
    IN  << [ cubic |-> cut.b.cubic,
             startOutlineProgress |-> 0,
             endOutlineProgress |-> mp.cubics[k].endOutlineProgress - cuttingPoint ] >>
        \o [i \in 1..(n - 1) |-> Shifted(mp.cubics[((k - 1 + i) % n) + 1])]
        \o << [ cubic |-> cut.a.cubic,
                startOutlineProgress |->
                    ShiftedStart(mp.cubics[k].startOutlineProgress, cuttingPoint),
                endOutlineProgress |-> One ] >>

\* The pieces whose progress range is not empty (larger than DistanceEpsilon).
NonEmptyPieces(pieces) ==
    SelectSeq(pieces, LAMBDA piece :
        piece.endOutlineProgress - piece.startOutlineProgress > DistanceEpsilon)

\* Measured cubics as (cubic, start, end).
Ranges(mcs) ==
    [i \in 1..Len(mcs) |->
        [ cubic |-> mcs[i].cubic,
          startOutlineProgress |-> mcs[i].startOutlineProgress,
          endOutlineProgress |-> mcs[i].endOutlineProgress ]]

\* The same feature objects, as many, each at (progress - cuttingPoint) mod 1.
FeaturesShifted(before, after, cuttingPoint) ==
    /\ Len(after.features) = Len(before.features)
    /\ \A i \in 1..Len(before.features) :
          /\ after.features[i].feature = before.features[i].feature
          /\ after.features[i].ref = before.features[i].ref
          /\ after.features[i].progress
               = positiveModulo(before.features[i].progress - cuttingPoint)

\* C23 as stated: every boundary progress of the result is the shifted one.
RotatedAsStated(before, after, cuttingPoint) ==
    IF cuttingPoint < DistanceEpsilon THEN after = before
    ELSE /\ ~after.threw
         /\ Ranges(after.cubics) = NonEmptyPieces(RotatedPieces(before, cuttingPoint))
         /\ FeaturesShifted(before, after, cuttingPoint)

\* C23 with the boundaries the constructor gives: a kept piece ends at its
\* shifted progress and starts where the kept piece before it ends; the
\* first starts at 0 and the last ends at 1.
RotatedAndJoined(before, after, cuttingPoint) ==
    IF cuttingPoint < DistanceEpsilon THEN after = before
    ELSE /\ ~after.threw
         /\ LET pieces == NonEmptyPieces(RotatedPieces(before, cuttingPoint))
            IN  /\ Len(after.cubics) = Len(pieces)
                /\ \A i \in 1..Len(pieces) :
                     /\ after.cubics[i].cubic = pieces[i].cubic
                     /\ after.cubics[i].endOutlineProgress =
                          (IF i = Len(pieces) THEN One ELSE pieces[i].endOutlineProgress)
                     /\ after.cubics[i].startOutlineProgress =
                          (IF i = 1 THEN 0 ELSE pieces[i - 1].endOutlineProgress)
         /\ FeaturesShifted(before, after, cuttingPoint)

\* A step that is a cutAndShift call with a cutting point of at most 1.
IsCutAndShift ==
    /\ cutsDone' # cutsDone
    /\ cutsDone'[Len(cutsDone')] <= One

\* C23 as stated (cutAndShift is a rotation): cutAndShift(cuttingPoint)
\* returns the polygon unchanged for cuttingPoint < DistanceEpsilon, and for
\* cuttingPoint in [DistanceEpsilon, 1] inside cubic k it returns the back
\* half of k, the cubics after k, the cubics before k and the front half of
\* k, without the pieces of empty progress, every boundary progress p
\* having become (p - cuttingPoint) mod 1, and the same feature objects,
\* as many, each at (progress - cuttingPoint) mod 1.
C23_Rotation ==
    [][IsCutAndShift =>
          RotatedAsStated(measuredPolygon, measuredPolygon',
                          cutsDone'[Len(cutsDone')])]_vars

\* C23 amended: as C23_Rotation, but the boundary next to a dropped half
\* of k is not shifted: the first kept piece starts at 0 and the last kept
\* piece ends at 1, each other piece starts where the one before it ends.
C23_RotationJoined ==
    [][IsCutAndShift =>
          RotatedAndJoined(measuredPolygon, measuredPolygon',
                           cutsDone'[Len(cutsDone')])]_vars

\* A polygon with features cut once, at 0.25 inside a cubic other than the
\* first, both halves kept: it has one cubic more than before the cut.
C23_Witness ==
    /\ cutsDone = << 250000 >>
    /\ ~measuredPolygon.threw
    /\ measuredPolygon.features # << >>
    /\ TargetIndex(measurePolygon(measuredSource).cubics, 250000, 1) > 1
    /\ Len(measuredPolygon.cubics) = Len(measurePolygon(measuredSource).cubics) + 1

\* Every cubic of cs ends exactly where the next one starts, the last one
\* where the first one starts.
ExactlyClosed(cs) ==
    \A i \in 1..Len(cs) :
        /\ anchor1X(cs[i]) = anchor0X(cs[(i % Len(cs)) + 1])
        /\ anchor1Y(cs[i]) = anchor0Y(cs[(i % Len(cs)) + 1])

\* C24 (exact continuity of cubics): for a feature list whose flattened
\* cubics are exactly continuous and closed, every two consecutive elements
\* of the polygon's cubics satisfy cubics[i].anchor1 = cubics[i+1].anchor0
\* exactly, zero-length cubics having been dropped.
C24_ExactlyJoined ==
    (cubics # << >> /\ ExactlyClosed(FlattenCubics(features))) =>
        \A i \in 1..(Len(cubics) - 1) :
            /\ anchor1X(cubics[i]) = anchor0X(cubics[i + 1])
            /\ anchor1Y(cubics[i]) = anchor0Y(cubics[i + 1])

\* A polygon of three or more cubics built from an exactly continuous and
\* closed outline in which a zero-length cubic with distinct ends follows a
\* retained cubic.
C24_Witness ==
    /\ cubics # << >>
    /\ Len(cubics) >= 3
    /\ ExactlyClosed(FlattenCubics(features))
    /\ \E i \in 2..Len(CubicListOrder(features)) :
          /\ zeroLength(CubicListOrder(features)[i])
          /\ ~zeroLength(CubicListOrder(features)[i - 1])
          /\ anchor0X(CubicListOrder(features)[i]) # anchor1X(CubicListOrder(features)[i])

\* polygon2CutPoint of the Morph built.
MatchCutPoint == map(DoubleMapper(morph.mapping), 0)

\* b1a for cubic i of bs1 and b2a for cubic j of bs2: the end progress, for
\* bs2 mapped back, and 1 for the last cubic.
End1(i) ==
    IF i = Len(morph.bs1.cubics) THEN One ELSE morph.bs1.cubics[i].endOutlineProgress
End2(j) ==
    IF j = Len(morph.bs2.cubics) THEN One
    ELSE mapBack(DoubleMapper(morph.mapping),
                 positiveModulo(morph.bs2.cubics[j].endOutlineProgress + MatchCutPoint))

MergePoints ==
    { End1(i) : i \in 1..Len(morph.bs1.cubics) }
    \cup { End2(j) : j \in 1..Len(morph.bs2.cubics) }

SetMinimum(values) == CHOOSE low \in values : \A other \in values : low <= other

\* The number of values, those not more than AngleEpsilon above the
\* smallest one left counting once with it.
RECURSIVE CountDistinct(_)
CountDistinct(values) ==
    IF values = {} THEN 0
    ELSE 1 + CountDistinct({ value \in values : value > SetMinimum(values) + AngleEpsilon })

MeasuredCorners(fs) == FilterCorners(measurePolygon(fs).features)

\* C26 (greedy one-to-one matching): the candidate pairs are processed in
\* ascending order of squared distance, every feature of either polygon
\* occurs in at most one accepted pair, the number of accepted pairs is at
\* most min(|corners1|, |corners2|), and the helper's mapping holds one
\* anchor for each accepted pair.
C26_GreedyOneToOne ==
    /\ \A i \in 1..(Len(morph.candidates) - 1) :
          morph.candidates[i].distance <= morph.candidates[i + 1].distance
    /\ \A i \in 1..Len(morph.pairs) : \A j \in 1..Len(morph.pairs) :
          i # j => /\ morph.pairs[i][1].ref # morph.pairs[j][1].ref
                   /\ morph.pairs[i][2].ref # morph.pairs[j][2].ref
    /\ morph # NoMorph =>
          /\ Len(morph.pairs) <= Len(MeasuredCorners(startPolygon))
          /\ Len(morph.pairs) <= Len(MeasuredCorners(endPolygon))
    /\ Len(morph.candidates) >= 2 =>
          morph.mapping = [i \in 1..Len(morph.pairs) |->
                             [a |-> morph.pairs[i][1].progress,
                              b |-> morph.pairs[i][2].progress]]

\* featureMapper went through candidates of differing distance that the
\* nested loops had not built in ascending order, accepted several pairs
\* and passed over a candidate whose first feature was in an accepted pair.
C26_Witness ==
    /\ Len(morph.pairs) >= 2
    /\ Len(morph.candidates) > Len(morph.pairs)
    /\ morph.candidates # DistanceVertexList(MeasuredCorners(startPolygon),
                                             MeasuredCorners(endPolygon), 1, 1)
    /\ \E i \in 1..Len(morph.candidates) : \E j \in 1..Len(morph.pairs) :
          /\ morph.candidates[i].f1.ref = morph.pairs[j][1].ref
          /\ morph.candidates[i].f2.ref # morph.pairs[j][2].ref

\* The valid pairs: a corner of the first list and a corner of the second
\* with the same convex flag, as positions in the two lists.
ValidPairs ==
    { pr \in (1..Len(fmFeatures1)) \X (1..Len(fmFeatures2)) :
        /\ isCorner(fmFeatures1[pr[1]].feature)
        /\ isCorner(fmFeatures2[pr[2]].feature)
        /\ fmFeatures1[pr[1]].feature.convex = fmFeatures2[pr[2]].feature.convex }

\* The anchors for one pair: the pair and its antipode on both axes.
PairAndAntipode(p1, p2) ==
    << [a |-> p1, b |-> p2], [a |-> (p1 + Half) % One, b |-> (p2 + Half) % One] >>

\* C27 (featureMapper special cases): with no valid pair the mapper has
\* exactly the anchors (0,0) and (0.5,0.5) and map(x) = x for every x in
\* [0,1); with exactly one valid pair (p1,p2) it has exactly the anchors
\* (p1,p2) and ((p1+0.5) mod 1, (p2+0.5) mod 1).
C27_SpecialCases ==
    fmHelper # NewHelper =>
        /\ ValidPairs = {} =>
              /\ fmHelper.mapping = << [a |-> 0, b |-> 0], [a |-> Half, b |-> Half] >>
              /\ fmX # Unset => fmMapped = fmX
        /\ Cardinality(ValidPairs) = 1 =>
              \A pr \in ValidPairs :
                  fmHelper.mapping = PairAndAntipode(fmFeatures1[pr[1]].progress,
                                                     fmFeatures2[pr[2]].progress)

\* Two polygons that both have corners, none of the first with the convex
\* flag of one of the second: map was called with an x larger than 0.5.
C27_Witness ==
    /\ fmHelper # NewHelper
    /\ ValidPairs = {}
    /\ Len(FilterCorners(fmFeatures1)) >= 1
    /\ Len(FilterCorners(fmFeatures2)) >= 1
    /\ fmX > Half

\* C28 (the mapper always has a segment): featureMapper returns a
\* DoubleMapper of at least two anchors for every pair of feature lists,
\* also when several candidates exist and only one is accepted, and neither
\* map(0) nor a mapBack or map call of Morph.match raises "No valid segment
\* found": the Morph constructor returns.
C28_TwoAnchors ==
    morph # NoMorph =>
        /\ Len(morph.mapping) >= 2
        /\ ~morph.threw

\* C29 (addMapping never raises): no sequence of addMapping calls makes
\* addMapping raise; a candidate whose f1.progress equals the a of an
\* accepted anchor is compared with neighbours inside the mapping list and
\* rejected.
C29_NeverRaises == ~mappingHelper.threw

\* Every cubic of cs but the last ends exactly where the next one starts.
ExactlyContinuous(cs) ==
    \A i \in 1..(Len(cs) - 1) :
        /\ anchor1X(cs[i]) = anchor0X(cs[i + 1])
        /\ anchor1Y(cs[i]) = anchor0Y(cs[i + 1])

\* ret is src traversed backwards: reverse(ck), ..., reverse(c0) for the
\* cubics c0..ck of src, continuous from src's last anchor to its first
\* when src is continuous, of the same kind, a Corner's convex flag flipped.
TraversedBackwards(src, ret) ==
    LET k == Len(src.cubics)
    IN  /\ ret.cubics = [i \in 1..k |-> reverse(src.cubics[k + 1 - i])]
        /\ (k > 0 /\ ExactlyContinuous(src.cubics)) =>
              /\ ExactlyContinuous(ret.cubics)
              /\ anchor0X(ret.cubics[1]) = anchor1X(src.cubics[k])
              /\ anchor0Y(ret.cubics[1]) = anchor1Y(src.cubics[k])
              /\ anchor1X(ret.cubics[k]) = anchor0X(src.cubics[1])
              /\ anchor1Y(ret.cubics[k]) = anchor0Y(src.cubics[1])
        /\ ret.kind = src.kind
        /\ isCorner(src) => ret.convex = ~src.convex

\* C30 (Feature.reversed): reversed() of a feature with the cubics c0..ck
\* holds reverse(ck), ..., reverse(c0) in that order; for a continuous
\* feature the result is continuous and runs from the original last anchor
\* to the original first anchor; a Corner's convex flag is flipped, an Edge
\* stays an Edge; reversed().reversed() equals the original feature.
C30_Reversed ==
    /\ \A n \in 1..Len(revResults) :
          TraversedBackwards(IF n = 1 THEN revFeature ELSE revResults[n - 1],
                             revResults[n])
    /\ Len(revResults) >= 2 => revResults[2] = revFeature

====
